---- MODULE Spec2Model ----
(***************************************************************************)
(* The blockchain ledger of cinnamon-backend: the in-memory chain engine   *)
(* (class Blockchain), the service around it (class BlockchainService)     *)
(* and the relational store it writes through to.                          *)
(*                                                                         *)
(* JavaScript runs one handler at a time and switches handlers only at an  *)
(* `await`.  Every action below is therefore one maximal run of code       *)
(* between two awaits of one call; pc[p] is the await a call is parked at. *)
(***************************************************************************)
EXTENDS Integers, Sequences, FiniteSets, TLC

(***************************************************************************)
(* Program constants, scaled down so that the states they guard are        *)
(* reached: the source sets blockSize = 5000, rateLimitMax = 100 and       *)
(* rateLimitWindow = 60000 ms (here: clock ticks).                         *)
(***************************************************************************)
blockSize == 2
rateLimitMax == 2
rateLimitWindow == 1

(***************************************************************************)
(* Bounds of the model.                                                    *)
(***************************************************************************)
\* the in-memory chain and the store are not grown beyond this many blocks
MaxChain == 3
\* concurrent API calls in flight
NumCalls == 2
\* the clock, where it advances, stops here
MaxNow == 3
\* no transaction is submitted whose sealing would raise the difficulty
\* above this
MaxDifficulty == 3

\* Blockchain.difficultyAdjustmentInterval, scaled down
difficultyAdjustmentInterval == 2
\* Blockchain.targetBlockTime, in clock ticks
targetBlockTime == 1
\* Blockchain.difficulty as constructed
initialDifficulty == 2

Calls == 1..NumCalls
Users == {1, 2}

Range(s) == {s[i] : i \in DOMAIN s}

\* F of the value of v, with v evaluated once
With(v, F(_)) == CHOOSE r \in {F(x) : x \in {v}} : TRUE

(***************************************************************************)
(* Transaction                                                             *)
(***************************************************************************)
\* isValid() compares timestamps in milliseconds; a clock tick is 60000 ms
futureTolerance == 1
oneDay == 1440

\* SHA-256 over the serialized fields, timestamp and nonce included: an
\* injective encoding of them
Transaction_calculateHash(actorUserId, batchNo, timestamp, nonce) ==
    <<actorUserId, batchNo, timestamp, nonce>>

NoHash == <<>>

\* new Transaction({...}): hash = hash || calculateHash()
TransactionAt(actorUserId, batchNo, nonce, sigOk, timestamp, hash) ==
    [transactionType |-> "BATCH_CREATE",
     actorUserId |-> actorUserId, batchNo |-> batchNo, nonce |-> nonce,
     sigOk |-> sigOk, timestamp |-> timestamp,
     hash |-> IF hash # NoHash THEN hash
              ELSE Transaction_calculateHash(actorUserId, batchNo, timestamp,
                                             nonce)]

\* new Transaction({...}) at time 0 with no hash given
Transaction(actorUserId, batchNo, nonce, sigOk) ==
    TransactionAt(actorUserId, batchNo, nonce, sigOk, 0, NoHash)

\* new Transaction({transactionType, ...}) of another type than
\* BATCH_CREATE (the nonce tells the hashes of the model apart)
TransactionOfType(transactionType, actorUserId, batchNo, nonce, timestamp) ==
    [TransactionAt(actorUserId, batchNo, nonce, TRUE, timestamp, NoHash)
        EXCEPT !.transactionType = transactionType]

(***************************************************************************)
(* The transactions callers submit.  The nonce is an optional constructor  *)
(* argument, so a caller may pick it: Tx1 and Tx2 share one.  TxBad        *)
(* carries no valid signature.  A behaviour draws its callers' inputs      *)
(* from one of the pools below.                                            *)
(***************************************************************************)
Tx1 == Transaction(1, "B1", "n1", TRUE)
Tx2 == Transaction(1, "B2", "n1", TRUE)
Tx3 == Transaction(2, "B1", "n2", TRUE)
TxBad == Transaction(1, "B1", "n2", FALSE)

PoolOneUser == {Tx1, Tx2, TxBad}
PoolTwoUsers == {Tx1, Tx3, TxBad}
TxPools == {PoolOneUser, PoolTwoUsers}
TxPool == UNION TxPools

NoTx == Transaction(0, "", "", FALSE)

\* transactions with one defect each, and one that is merely old:
\* no batchNo; a timestamp beyond the tolerance; a hash given to the
\* constructor that is not the hash of the fields; created over a day ago
TxNoField == Transaction(2, "", "n3", TRUE)
TxFuture == TransactionAt(2, "B3", "n4", TRUE, futureTolerance + 1, NoHash)
TxBadHash == TransactionAt(2, "B4", "n5", TRUE, 0, <<"forged">>)
TxOld == TransactionAt(2, "B5", "n6", TRUE, 0 - oneDay - 1, NoHash)
PoolValidity == {Tx1, TxBad, TxNoField, TxFuture, TxBadHash, TxOld}

(***************************************************************************)
(* Block                                                                   *)
(***************************************************************************)
TxHashes(transactions) == [i \in DOMAIN transactions |-> transactions[i].hash]

\* SHA-256 of the empty string, and of the concatenation of two hex digests
Sha256Empty == <<"sha256">>
Sha256Concat(a, b) == <<"sha256", a, b>>

\* a layer loop that leaves the last hash of an odd layer as it is
RECURSIVE MerkleForLoop_CarryLast(_, _, _)
MerkleForLoop_CarryLast(hashes, i, newHashes) ==
    IF i > Len(hashes) THEN newHashes
    ELSE IF i + 1 <= Len(hashes)
    THEN MerkleForLoop_CarryLast(hashes, i + 2,
            Append(newHashes, Sha256Concat(hashes[i], hashes[i + 1])))
    ELSE MerkleForLoop_CarryLast(hashes, i + 2, Append(newHashes, hashes[i]))

\* calculateMerkleRoot(), the for loop over one layer (i is the index, from
\* 1 here): a pair of neighbours is hashed together, a last hash without a
\* neighbour is hashed with itself
RECURSIVE MerkleForLoop(_, _, _)
MerkleForLoop(hashes, i, newHashes) ==
    IF i > Len(hashes) THEN newHashes
    ELSE IF i + 1 <= Len(hashes)
    THEN MerkleForLoop(hashes, i + 2,
            Append(newHashes, Sha256Concat(hashes[i], hashes[i + 1])))
    ELSE MerkleForLoop(hashes, i + 2,
            Append(newHashes, Sha256Concat(hashes[i], hashes[i])))

\* calculateMerkleRoot(), the while loop: layers until one hash is left
RECURSIVE MerkleWhileLoop(_)
MerkleWhileLoop(hashes) ==
    IF Len(hashes) > 1
    THEN MerkleWhileLoop(MerkleForLoop(hashes, 1, <<>>))
    ELSE hashes

\* calculateMerkleRoot(): the hash of the empty string for no transactions,
\* else what the loops leave of the transactions' hashes
Block_calculateMerkleRoot(transactions) ==
    IF Len(transactions) = 0 THEN Sha256Empty
    ELSE MerkleWhileLoop(TxHashes(transactions))[1]

\* SHA-256 over {blockNumber, previousHash, merkleRoot, timestamp, nonce,
\* difficulty, validatorUserId, validatorPublicKey}: an injective encoding
Block_calculateHash(blockNumber, previousHash, merkleRoot, timestamp, nonce, difficulty, validatorUserId, validatorPublicKey) ==
    <<blockNumber, previousHash, merkleRoot, timestamp, nonce, difficulty,
      validatorUserId, validatorPublicKey>>

\* the hash of a record's fields
HashOf(b) ==
    Block_calculateHash(b.blockNumber, b.previousHash, b.merkleRoot,
                        b.timestamp, b.nonce, b.difficulty,
                        b.validatorUserId, b.validatorPublicKey)

\* null validator fields
NoValidator == 0
NoKey == "none"
NoSignature == <<>>

\* new Block({...}) with no validator, no hash and no merkleRoot given
Block(blockNumber, previousHash, transactions, timestamp, nonce, difficulty) ==
    With([blockNumber |-> blockNumber, previousHash |-> previousHash,
          transactions |-> transactions, timestamp |-> timestamp,
          nonce |-> nonce, difficulty |-> difficulty,
          validatorUserId |-> NoValidator, validatorPublicKey |-> NoKey,
          validatorSignature |-> NoSignature,
          merkleRoot |-> Block_calculateMerkleRoot(transactions),
          hash |-> NoHash],
         LAMBDA b : [b EXCEPT !.hash = HashOf(b)])

NoBlock == Block(-1, <<"none">>, <<>>, 0, 0, 0)

\* the number of leading '0' digits of a hash.  The hash function is taken
\* to be one under which a block hashed with nonce k gets k of them; a value
\* that is no block hash ('0', a forged string) has none.
LeadingZeros(hash) == IF Len(hash) = 8 THEN hash[5] ELSE 0

\* hash.substring(0, difficulty) === '0'.repeat(difficulty)
MeetsDifficulty(hash, difficulty) == LeadingZeros(hash) >= difficulty

\* mineBlock(difficulty) on the block with the fields b: the nonce is
\* incremented and the hash recomputed until the hash meets the difficulty
MineLoop(b, difficulty) ==
    LET d == [b EXCEPT !.difficulty = difficulty]
        nonce == CHOOSE n \in (b.nonce + 1)..(b.nonce + difficulty + 1) :
                    /\ MeetsDifficulty(HashOf([d EXCEPT !.nonce = n]),
                                       difficulty)
                    /\ \A m \in (b.nonce + 1)..(n - 1) :
                          ~MeetsDifficulty(HashOf([d EXCEPT !.nonce = m]),
                                           difficulty)
    IN  IF MeetsDifficulty(b.hash, difficulty) THEN d
        ELSE With([d EXCEPT !.nonce = nonce],
                  LAMBDA mined : [mined EXCEPT !.hash = HashOf(mined)])

mineBlock(b, difficulty) == With(b, LAMBDA x : MineLoop(x, difficulty))

\* CryptoUtils.signData over {blockNumber, previousHash, merkleRoot, hash,
\* timestamp}: the signature determines the key and the signed fields
SignBlockData(key, b) ==
    <<key, b.blockNumber, b.previousHash, b.merkleRoot, b.hash, b.timestamp>>

\* signBlock(): validator id and key are set, then the block is signed; the
\* hash is not recomputed
signBlock(b, key, validatorUserId) ==
    With([b EXCEPT !.validatorUserId = validatorUserId,
                   !.validatorPublicKey = key],
         LAMBDA v : [v EXCEPT !.validatorSignature = SignBlockData(key, v)])

\* verifyBlockSignature()
verifyBlockSignature(b) ==
    /\ b.validatorSignature # NoSignature
    /\ b.validatorPublicKey # NoKey
    /\ b.validatorSignature = SignBlockData(b.validatorPublicKey, b)

\* Block.isValid(): hash and Merkle root are recomputed and compared; a
\* block other than block 0 must meet its difficulty; a signature that
\* comes with a key must verify; every transaction must carry its required
\* fields (their hashes and signatures are not looked at)
Block_isValid(b) ==
    /\ b.hash = HashOf(b)
    /\ b.merkleRoot = Block_calculateMerkleRoot(b.transactions)
    /\ b.blockNumber > 0 => MeetsDifficulty(b.hash, b.difficulty)
    /\ (b.validatorSignature # NoSignature /\ b.validatorPublicKey # NoKey)
          => verifyBlockSignature(b)
    /\ \A i \in DOMAIN b.transactions :
          /\ b.transactions[i].batchNo # ""
          /\ b.transactions[i].actorUserId # 0

VARIABLES
    initialized,            \* BlockchainService.initialized
    healthCheckInterval,    \* TRUE once the 5-minute timer is installed
    chain,                  \* Blockchain.chain
    pendingTransactions,    \* Blockchain.pendingTransactions
    processedTransactions,  \* Blockchain.processedTransactions (replay set)
    difficulty,             \* Blockchain.difficulty
    rateLimitMap,           \* BlockchainService.rateLimitMap
    now,                    \* Date.now(); it advances in the specifications
                            \* that take Tick steps and stands still in the
                            \* others, where all submissions fall in one
                            \* rate window
    clientTxs,              \* the transactions this behaviour's callers hold
    admittedInWindow,       \* history: per user, the submissions admitted so
                            \* far in the user's current rate window
    validators,             \* Blockchain.validators
    dbBlocks,               \* rows of blockchain_blocks with their
                            \* blockchain_transactions rows, insertion order
    dbTransactionCount,     \* blockchain_blocks.transaction_count, by
                            \* block_number
    dbBatchRefs,            \* rows of batch_blockchain_refs
    dbValidators,           \* blockchain_metadata: the rows with key
                            \* 'validators' (none or one), each the set it
                            \* stores
    userKeys,               \* rows of user_keys, insertion order
    pc,                     \* per call: the await it is parked at
    ctx,                    \* per call: its arguments and locals
    result                  \* what the last step returned to its caller,
                            \* NoResult when the last step returned nothing

vars == <<initialized, healthCheckInterval, chain, pendingTransactions,
          processedTransactions, difficulty, rateLimitMap, now, clientTxs,
          admittedInWindow, validators, dbBlocks, dbTransactionCount,
          dbBatchRefs, dbValidators, userKeys, pc, ctx, result>>

memory == <<chain, pendingTransactions, processedTransactions>>

\* the relations of the ledger
store == <<dbBlocks, dbTransactionCount, dbBatchRefs, dbValidators>>

NoRow == <<>>

\* getStageFromTransactionType(): mapping[txType] || null
NoStage == "none"

getStageFromTransactionType(txType) ==
    CASE txType = "BATCH_CREATE" -> "cultivation"
      [] txType = "HARVEST_RECORD" -> "harvest"
      [] txType = "COLLECTION_RECORD" -> "collection"
      [] txType = "TRANSPORT_START" -> "transport"
      [] txType = "TRANSPORT_END" -> "transport"
      [] txType = "DRYING_RECORD" -> "process"
      [] txType = "GRADING_RECORD" -> "process"
      [] txType = "PACKING_RECORD" -> "process"
      [] txType = "DISTRIBUTION_COLLECT" -> "distribute"
      [] txType = "DISTRIBUTION_COMPLETE" -> "distribute"
      [] txType = "EXPORT_COLLECT" -> "export"
      [] txType = "EXPORT_RECORD" -> "export"
      [] OTHER -> NoStage

\* the batch_blockchain_refs rows persistBlock() writes for a block: one for
\* each transaction whose type has a stage
BatchRefs(block) ==
    {[batchNo |-> block.transactions[i].batchNo,
      stage |-> getStageFromTransactionType(block.transactions[i].transactionType),
      transactionHash |-> block.transactions[i].hash,
      blockNumber |-> block.blockNumber] :
        i \in {j \in DOMAIN block.transactions :
                 getStageFromTransactionType(block.transactions[j].transactionType)
                    # NoStage}}

\* what persistBlock() and createGenesisBlock() leave in transaction_count
\* and in batch_blockchain_refs for the given block rows
CountsOf(rows) ==
    [n \in {rows[i].blockNumber : i \in DOMAIN rows} |->
        Len((CHOOSE r \in {rows[j] : j \in DOMAIN rows} :
                r.blockNumber = n).transactions)]

RefsOf(rows) == UNION {BatchRefs(rows[i]) : i \in DOMAIN rows}

\* isValid(): required fields present; a hash that is not the recomputed
\* hash is logged and let through; the signature must verify; the timestamp
\* must not lie more than the tolerance ahead of Date.now(); an old
\* transaction is logged and let through
Transaction_isValid(tx) ==
    /\ tx.transactionType # ""
    /\ tx.batchNo # ""
    /\ tx.actorUserId # 0
    /\ tx.sigOk
    /\ ~(tx.timestamp > now + futureTolerance)

\* the unawaited and the timer-driven integrity checks run as task 0
HealthTask == 0
Tasks == Calls \cup {HealthTask}

CtxIdle ==
    [api |-> "none", inLoad |-> "none", tx |-> NoTx, auto |-> FALSE,
     block |-> NoBlock, rows |-> <<>>, idx |-> 0, chainValid |-> FALSE,
     recheck |-> FALSE, userId |-> 0, privateKey |-> NoKey,
     publicKey |-> NoKey, existing |-> <<>>]

\* what a call hands back: for addTransaction() {success, error, block,
\* pending}, kept with the transaction the call was made with
Result(api, tx, success, error, blockNumber, pending) ==
    [api |-> api, tx |-> tx, success |-> success, error |-> error,
     blockNumber |-> blockNumber, pending |-> pending, userId |-> 0,
     privateKey |-> NoKey, publicKey |-> NoKey, keyVersion |-> 0,
     batchNo |-> "", history |-> <<>>]

\* what a call of the KeyManager hands back: the key material it returns
\* (null where it returns none), kept with the user it was called for
KeyResult(api, userId, success, error, privateKey, publicKey, keyVersion) ==
    [Result(api, NoTx, success, error, -1, FALSE)
        EXCEPT !.userId = userId, !.privateKey = privateKey,
               !.publicKey = publicKey, !.keyVersion = keyVersion]

NoResult == Result("none", NoTx, FALSE, "none", -1, FALSE)

\* new BlockchainService() and new Blockchain() in a fresh process
Fresh ==
    /\ admittedInWindow = [u \in Users |-> 0]
    /\ initialized = FALSE
    /\ healthCheckInterval = FALSE
    /\ chain = <<>>
    /\ pendingTransactions = <<>>
    /\ processedTransactions = {}
    /\ validators = {}
    /\ difficulty = initialDifficulty
    /\ rateLimitMap = <<>>
    /\ now = 0
    /\ pc = [p \in Tasks |-> "idle"]
    /\ ctx = [p \in Tasks |-> CtxIdle]
    /\ result = NoResult

\* a fresh process on an empty store
Constructed ==
    /\ Fresh
    /\ dbBlocks = <<>>
    /\ dbTransactionCount = <<>>
    /\ dbBatchRefs = {}
    /\ dbValidators = NoRow
    /\ userKeys = <<>>

Init ==
    /\ clientTxs \in TxPools
    /\ Constructed

(***************************************************************************)
(* class Blockchain: the synchronous engine.  Each operator takes the      *)
(* engine fields it reads and returns the fields it leaves behind.         *)
(***************************************************************************)
ZeroHash == <<"0">>

getLatestBlock(ch) == IF Len(ch) = 0 THEN NoBlock ELSE ch[Len(ch)]

\* createGenesisBlock(): block 0, pushed on the chain at once
Blockchain_createGenesisBlock(t) == Block(0, ZeroHash, <<>>, t, 0, 0)

\* adjustDifficulty(): looked at only when the chain length is a positive
\* multiple of the interval; the span is taken between the timestamps of the
\* first and the last of the interval's most recent blocks.
\* timeSpan < expectedTime / 2 is written without the division.
adjustDifficulty(ch, d) ==
    IF Len(ch) < difficultyAdjustmentInterval
    THEN d
    ELSE IF Len(ch) % difficultyAdjustmentInterval # 0
    THEN d
    ELSE LET recentBlocks ==
                 SubSeq(ch, Len(ch) - difficultyAdjustmentInterval + 1, Len(ch))
             timeSpan == recentBlocks[Len(recentBlocks)].timestamp
                            - recentBlocks[1].timestamp
             expectedTime == targetBlockTime * difficultyAdjustmentInterval
         IN  IF 2 * timeSpan < expectedTime THEN d + 1
             ELSE IF timeSpan > expectedTime * 2
             THEN (IF d - 1 > 1 THEN d - 1 ELSE 1)
             ELSE d

\* createBlock() that takes the newest pending transactions first
createBlock_Lifo(ch, pend, d, t) ==
    IF Len(pend) = 0
    THEN [chain |-> ch, pending |-> pend, difficulty |-> d, block |-> NoBlock]
    ELSE LET latestBlock == getLatestBlock(ch)
             blockNumber == IF Len(ch) > 0 THEN latestBlock.blockNumber + 1 ELSE 0
             previousHash == IF Len(ch) > 0 THEN latestBlock.hash ELSE ZeroHash
             n == IF Len(pend) < blockSize THEN Len(pend) ELSE blockSize
             taken == [k \in 1..n |-> pend[Len(pend) + 1 - k]]
         IN  With(adjustDifficulty(ch, d), LAMBDA currentDifficulty :
               With(Block(blockNumber, previousHash, taken, t,
                          0, currentDifficulty), LAMBDA built :
                 With(IF blockNumber > 0
                      THEN mineBlock(built, currentDifficulty)
                      ELSE built, LAMBDA newBlock :
                   [chain |-> Append(ch, newBlock),
                    pending |-> SubSeq(pend, 1, Len(pend) - n),
                    difficulty |-> currentDifficulty,
                    block |-> newBlock])))

\* createBlock(): up to blockSize pending transactions leave the pool (FIFO)
\* for a block numbered after the current tip; the difficulty is adjusted,
\* a block other than block 0 is mined at it, and the block is pushed on the
\* chain.  No caller in the repository passes a validator, so the block is
\* not signed.
createBlock(ch, pend, d, t) ==
    IF Len(pend) = 0
    THEN [chain |-> ch, pending |-> pend, difficulty |-> d, block |-> NoBlock]
    ELSE LET latestBlock == getLatestBlock(ch)
             blockNumber == IF Len(ch) > 0 THEN latestBlock.blockNumber + 1 ELSE 0
             previousHash == IF Len(ch) > 0 THEN latestBlock.hash ELSE ZeroHash
             n == IF Len(pend) < blockSize THEN Len(pend) ELSE blockSize
         IN  With(adjustDifficulty(ch, d), LAMBDA currentDifficulty :
               With(Block(blockNumber, previousHash, SubSeq(pend, 1, n), t,
                          0, currentDifficulty), LAMBDA built :
                 With(IF blockNumber > 0
                      THEN mineBlock(built, currentDifficulty)
                      ELSE built, LAMBDA newBlock :
                   [chain |-> Append(ch, newBlock),
                    pending |-> SubSeq(pend, n + 1, Len(pend)),
                    difficulty |-> currentDifficulty,
                    block |-> newBlock])))

\* forceCreateBlock() that adjusts the difficulty before it looks at the pool
forceCreateBlock_AdjustFirst(ch, pend, d, t) ==
    IF Len(pend) = 0
    THEN [chain |-> ch, pending |-> pend,
          difficulty |-> adjustDifficulty(ch, d), block |-> NoBlock]
    ELSE createBlock(ch, pend, d, t)

\* forceCreateBlock(): nothing on an empty pool, else createBlock()
forceCreateBlock(ch, pend, d, t) ==
    IF Len(pend) = 0
    THEN [chain |-> ch, pending |-> pend, difficulty |-> d, block |-> NoBlock]
    ELSE createBlock(ch, pend, d, t)

\* a signature made with a private key verifies under its public key
SignerOf(privateKey) ==
    CASE privateKey = "priv1" -> "pub1"
      [] privateKey = "priv2" -> "pub2"
      [] privateKey = "priv3" -> "pub3"
      [] OTHER -> NoKey

\* createBlock(validatorUserId, validatorPrivateKey, validatorPublicKey):
\* the block is built with the validator id and public key given, mined,
\* and signed when id and both keys are there.  Nothing is asked of the
\* validator set.
createBlockAs(ch, pend, d, t, validatorUserId, validatorPrivateKey, validatorPublicKey) ==
    IF Len(pend) = 0
    THEN [chain |-> ch, pending |-> pend, difficulty |-> d, block |-> NoBlock]
    ELSE LET latestBlock == getLatestBlock(ch)
             blockNumber == IF Len(ch) > 0 THEN latestBlock.blockNumber + 1 ELSE 0
             previousHash == IF Len(ch) > 0 THEN latestBlock.hash ELSE ZeroHash
             n == IF Len(pend) < blockSize THEN Len(pend) ELSE blockSize
         IN  With(adjustDifficulty(ch, d), LAMBDA currentDifficulty :
               With([Block(blockNumber, previousHash, SubSeq(pend, 1, n), t,
                           0, currentDifficulty)
                       EXCEPT !.validatorUserId = validatorUserId,
                              !.validatorPublicKey = validatorPublicKey],
                    LAMBDA fields :
               With([fields EXCEPT !.hash = HashOf(fields)], LAMBDA built :
                 With(IF blockNumber > 0
                      THEN mineBlock(built, currentDifficulty)
                      ELSE built, LAMBDA mined :
                 With(IF /\ validatorPrivateKey # NoKey
                         /\ validatorPublicKey # NoKey
                         /\ validatorUserId # NoValidator
                      THEN [signBlock(mined, SignerOf(validatorPrivateKey),
                                      validatorUserId)
                              EXCEPT !.validatorPublicKey = validatorPublicKey]
                      ELSE mined, LAMBDA newBlock :
                   [chain |-> Append(ch, newBlock),
                    pending |-> SubSeq(pend, n + 1, Len(pend)),
                    difficulty |-> currentDifficulty,
                    block |-> newBlock])))))

\* forceCreateBlock(validatorUserId, validatorPrivateKey, validatorPublicKey)
forceCreateBlockAs(ch, pend, d, t, validatorUserId, validatorPrivateKey, validatorPublicKey) ==
    IF Len(pend) = 0
    THEN [chain |-> ch, pending |-> pend, difficulty |-> d, block |-> NoBlock]
    ELSE createBlockAs(ch, pend, d, t, validatorUserId, validatorPrivateKey,
                       validatorPublicKey)

\* Blockchain.addTransaction(): validity, then replay, then admission; at
\* blockSize pending transactions a block is created on the spot
Blockchain_addTransaction(ch, pend, processed, d, tx, t) ==
    IF ~Transaction_isValid(tx)
    THEN [error |-> "InvalidTransaction", chain |-> ch, pending |-> pend,
          processed |-> processed, difficulty |-> d, block |-> NoBlock]
    ELSE IF tx.hash \in processed
    THEN [error |-> "Replay", chain |-> ch, pending |-> pend,
          processed |-> processed, difficulty |-> d, block |-> NoBlock]
    ELSE LET pend2 == Append(pend, tx)
             proc2 == processed \cup {tx.hash}
         IN  IF Len(pend2) >= blockSize
             THEN With(createBlock(ch, pend2, d, t), LAMBDA c :
                       [error |-> "none", chain |-> c.chain,
                        pending |-> c.pending, processed |-> proc2,
                        difficulty |-> c.difficulty, block |-> c.block])
             ELSE [error |-> "none", chain |-> ch, pending |-> pend2,
                   processed |-> proc2, difficulty |-> d, block |-> NoBlock]

\* isChainValid(): the chain is not empty; its first block has previousHash
\* '0'; every later block is valid, links to its predecessor, carries the
\* next number and has a hash that meets its difficulty
isChainValid(ch) ==
    /\ Len(ch) > 0
    /\ ch[1].previousHash = ZeroHash
    /\ \A i \in 2..Len(ch) :
          /\ Block_isValid(ch[i])
          /\ ch[i].previousHash = ch[i-1].hash
          /\ ch[i].blockNumber = ch[i-1].blockNumber + 1
          /\ MeetsDifficulty(ch[i].hash, ch[i].difficulty)

(***************************************************************************)
(* class BlockchainService: synchronous parts                              *)
(***************************************************************************)
\* a limiter whose window slides: every counted attempt moves resetTime
checkRateLimit_Sliding(map, userId, t) ==
    IF userId \notin DOMAIN map \/ t > map[userId].resetTime
    THEN [ok |-> TRUE,
          map |-> [u \in DOMAIN map \cup {userId} |->
                     IF u = userId
                     THEN [count |-> 1, resetTime |-> t + rateLimitWindow]
                     ELSE map[u]]]
    ELSE IF map[userId].count >= rateLimitMax
    THEN [ok |-> FALSE, map |-> map]
    ELSE [ok |-> TRUE,
          map |-> [map EXCEPT ![userId] =
                     [count |-> map[userId].count + 1,
                      resetTime |-> t + rateLimitWindow]]]

\* checkRateLimit(): a missing or expired entry starts a window with count 1;
\* a full window refuses; otherwise the count goes up
checkRateLimit(map, userId, t) ==
    IF userId \notin DOMAIN map \/ t > map[userId].resetTime
    THEN [ok |-> TRUE,
          map |-> [u \in DOMAIN map \cup {userId} |->
                     IF u = userId
                     THEN [count |-> 1, resetTime |-> t + rateLimitWindow]
                     ELSE map[u]]]
    ELSE IF map[userId].count >= rateLimitMax
    THEN [ok |-> FALSE, map |-> map]
    ELSE [ok |-> TRUE,
          map |-> [map EXCEPT ![userId].count = map[userId].count + 1]]

\* the body of BlockchainService.addTransaction() up to its first await:
\* rate limit, engine admission, forced sealing when autoCreateBlock
addTransactionBody(tx, auto) ==
    With(checkRateLimit(rateLimitMap, tx.actorUserId, now), LAMBDA rl :
      IF ~rl.ok
      THEN [error |-> "RateLimited", map |-> rl.map, chain |-> chain,
            pending |-> pendingTransactions,
            processed |-> processedTransactions,
            difficulty |-> difficulty, block |-> NoBlock]
      ELSE With(Blockchain_addTransaction(chain, pendingTransactions,
                                          processedTransactions, difficulty,
                                          tx, now), LAMBDA a :
        IF a.error # "none"
        THEN [error |-> a.error, map |-> rl.map, chain |-> chain,
              pending |-> pendingTransactions,
              processed |-> processedTransactions,
              difficulty |-> difficulty, block |-> NoBlock]
        ELSE IF auto
        THEN With(forceCreateBlock(a.chain, a.pending, a.difficulty, now),
                  LAMBDA f :
                    [error |-> "none", map |-> rl.map, chain |-> f.chain,
                     pending |-> f.pending, processed |-> a.processed,
                     difficulty |-> f.difficulty, block |-> f.block])
        ELSE [error |-> "none", map |-> rl.map, chain |-> a.chain,
              pending |-> a.pending, processed |-> a.processed,
              difficulty |-> a.difficulty, block |-> NoBlock]))

(***************************************************************************)
(* The store.  A row of blockchain_blocks is kept with the rows of         *)
(* blockchain_transactions that reference it: persistBlock() writes them   *)
(* in one db.transaction().                                                *)
(***************************************************************************)
\* UNIQUE(block_number), UNIQUE(block_hash), UNIQUE(transaction_hash)
UniqueOk(rows, b) ==
    /\ \A i \in DOMAIN rows :
          /\ rows[i].blockNumber # b.blockNumber
          /\ rows[i].hash # b.hash
          /\ \A j \in DOMAIN rows[i].transactions, k \in DOMAIN b.transactions :
                rows[i].transactions[j].hash # b.transactions[k].hash
    /\ \A j, k \in DOMAIN b.transactions :
          j # k => b.transactions[j].hash # b.transactions[k].hash

\* select().from(blockchain_blocks).orderBy(block_number)
RECURSIVE OrderByBlockNumber(_)
OrderByBlockNumber(rowSet) ==
    IF rowSet = {} THEN <<>>
    ELSE LET first == CHOOSE r \in rowSet :
                         \A q \in rowSet : r.blockNumber <= q.blockNumber
         IN  <<first>> \o OrderByBlockNumber(rowSet \ {first})

\* select().from(blockchain_transactions).where(block_id = ...)
SelectTransactions(rows, blockRow) ==
    IF \E i \in DOMAIN rows : rows[i].hash = blockRow.hash
    THEN (CHOOSE r \in Range(rows) : r.hash = blockRow.hash).transactions
    ELSE <<>>

(***************************************************************************)
(* class KeyManager and the relation user_keys.  A row is                  *)
(* {user_id, public_key, encrypted_private_key, key_version, is_active}.   *)
(***************************************************************************)
\* the key pairs CryptoUtils.generateKeyPair() may draw
PrivateKeys == {"priv1", "priv2", "priv3"}

\* the public key of a private key
PublicKeyOf(privateKey) ==
    CASE privateKey = "priv1" -> "pub1"
      [] privateKey = "priv2" -> "pub2"
      [] privateKey = "priv3" -> "pub3"
      [] OTHER -> NoKey

\* encryptPrivateKey(): AES-256-GCM under a secret derived from JWT_SECRET
\* and the user id
encryptPrivateKey(privateKey, userId) == <<userId, privateKey>>

\* decryptPrivateKey() without password: the secret is derived from the
\* same JWT_SECRET and the user id given; under another secret the
\* authentication tag does not verify
decryptPrivateKey(encryptedData, userId) ==
    IF encryptedData[1] = userId
    THEN [error |-> "none", privateKey |-> encryptedData[2]]
    ELSE [error |-> "DecryptFailed", privateKey |-> NoKey]

\* select().from(user_keys).where(user_id = ...)
KeysOf(rows, userId) == SelectSeq(rows, LAMBDA r : r.userId = userId)

\* the same relation without the unique index
UniqueActiveOk_NoIndex(rows) == TRUE

\* idx_user_keys_unique_active: UNIQUE (user_id, is_active) WHERE is_active
UniqueActiveOk(rows) ==
    \A i, j \in DOMAIN rows :
       (i # j /\ rows[i].isActive /\ rows[j].isActive)
          => rows[i].userId # rows[j].userId

\* getPrivateKey() that does not look at is_active
getPrivateKey_IgnoresActive(row, userId) ==
    decryptPrivateKey(row.encryptedPrivateKey, userId)

\* getPrivateKey() on the row the select returned first
getPrivateKey(row, userId) ==
    IF ~row.isActive
    THEN [error |-> "KeyInactive", privateKey |-> NoKey]
    ELSE decryptPrivateKey(row.encryptedPrivateKey, userId)

(***************************************************************************)
(* Actions                                                                 *)
(***************************************************************************)
Return(pcB, ctxB, p, r) ==
    /\ pc' = [pcB EXCEPT ![p] = "idle"]
    /\ ctx' = [ctxB EXCEPT ![p] = CtxIdle]
    /\ result' = r

\* addTransaction() from its try block to its first await or its return
ApplyAddBody(pcB, ctxB, p, tx, auto) ==
    \E o \in {addTransactionBody(tx, auto)} :
    LET u == tx.actorUserId
        sameWindow == u \in DOMAIN rateLimitMap /\ now <= rateLimitMap[u].resetTime
        before == IF sameWindow THEN admittedInWindow[u] ELSE 0
    IN  /\ rateLimitMap' = o.map
        /\ admittedInWindow' =
              [admittedInWindow EXCEPT ![u] =
                  IF o.error = "none" THEN before + 1 ELSE before]
        /\ chain' = o.chain
        /\ pendingTransactions' = o.pending
        /\ processedTransactions' = o.processed
        /\ difficulty' = o.difficulty
        /\ IF o.error = "none" /\ o.block # NoBlock
           THEN /\ pc' = [pcB EXCEPT ![p] = "persist"]
                /\ ctx' = [ctxB EXCEPT ![p] =
                             [CtxIdle EXCEPT !.api = "addTransaction", !.tx = tx,
                                             !.auto = auto, !.block = o.block]]
                /\ result' = NoResult
           ELSE Return(pcB, ctxB, p,
                       Result("addTransaction", tx, o.error = "none", o.error,
                              -1, o.error = "none"))

\* addTransaction(transaction, autoCreateBlock): an uninitialized service
\* first awaits initialize(), which awaits loadFromDatabase()
addTransactionCall(p, tx, auto) ==
    /\ pc[p] = "idle"
    /\ tx \in clientTxs
    /\ IF ~initialized
       THEN /\ pc' = [pc EXCEPT ![p] = "load_blocks"]
            /\ ctx' = [ctx EXCEPT ![p] =
                         [CtxIdle EXCEPT !.api = "addTransaction",
                                         !.inLoad = "initialize",
                                         !.tx = tx, !.auto = auto]]
            /\ UNCHANGED <<memory, difficulty, rateLimitMap, admittedInWindow>>
            /\ result' = NoResult
       ELSE ApplyAddBody(pc, ctx, p, tx, auto)
    /\ UNCHANGED <<initialized, healthCheckInterval, now, clientTxs, userKeys, validators, store>>

\* addTransaction() within the bounds of the model
addTransaction(p, tx, auto) ==
    /\ Len(chain) < MaxChain
    /\ Len(dbBlocks) < MaxChain
    /\ adjustDifficulty(chain, difficulty) <= MaxDifficulty
    /\ addTransactionCall(p, tx, auto)

\* persistBlock(): the db.transaction() commits or aborts; addTransaction()
\* returns the block, or catches the error and returns it
persistBlock(p, dbOk) ==
    /\ pc[p] = "persist"
    /\ LET block == ctx[p].block
       IN  IF dbOk /\ UniqueOk(dbBlocks, block)
           THEN /\ dbBlocks' = Append(dbBlocks, block)
                /\ dbTransactionCount' =
                      [n \in DOMAIN dbTransactionCount \cup {block.blockNumber}
                         |-> IF n = block.blockNumber
                             THEN Len(block.transactions)
                             ELSE dbTransactionCount[n]]
                /\ dbBatchRefs' = dbBatchRefs \cup BatchRefs(block)
                /\ UNCHANGED dbValidators
                /\ Return(pc, ctx, p,
                          Result("addTransaction", ctx[p].tx, TRUE, "none",
                                 block.blockNumber, FALSE))
           ELSE /\ UNCHANGED store
                /\ Return(pc, ctx, p,
                          Result("addTransaction", ctx[p].tx, FALSE,
                                 "PersistenceFailed", -1, FALSE))
    /\ UNCHANGED <<initialized, healthCheckInterval, memory, rateLimitMap, now, clientTxs, userKeys, validators, difficulty, admittedInWindow>>
\* startHealthMonitoring() in initialize(): the first time it installs the
\* timer and starts one check without awaiting it; performIntegrityCheck()
\* validates the chain and parks at its db.select()
HealthPc(pcB) ==
    IF healthCheckInterval THEN pcB
    ELSE [pcB EXCEPT ![HealthTask] = "check_select"]

HealthCtx(ctxB, ch) ==
    IF healthCheckInterval THEN ctxB
    ELSE [ctxB EXCEPT ![HealthTask] =
            [CtxIdle EXCEPT !.api = "health", !.chainValid = isChainValid(ch)]]

\* what follows `await this.loadFromDatabase()` once the loop has ended,
\* with ch and processed the chain and replay set the loop left behind:
\*   initialize():  an empty chain gets a genesis block, pushed on the chain
\*                  before its insert is awaited; then loadValidators()
\*   reloadChain(): returns success; performIntegrityCheckWithRecovery()
\*                  then checks again
AfterLoad(p, ch, processed) ==
    /\ processedTransactions' = processed
    /\ UNCHANGED <<pendingTransactions, rateLimitMap, initialized,
                   healthCheckInterval, store, now, clientTxs, userKeys, validators, difficulty, admittedInWindow>>
    /\ IF ctx[p].inLoad = "initialize"
       THEN IF Len(ch) = 0
            THEN LET genesisBlock == Blockchain_createGenesisBlock(now)
                 IN  /\ chain' = Append(ch, genesisBlock)
                     /\ pc' = [pc EXCEPT ![p] = "genesis_insert"]
                     /\ ctx' = [ctx EXCEPT ![p].block = genesisBlock,
                                           ![p].rows = <<>>, ![p].idx = 0]
                     /\ result' = NoResult
            ELSE /\ chain' = ch
                 /\ pc' = [pc EXCEPT ![p] = "load_validators"]
                 /\ ctx' = [ctx EXCEPT ![p].rows = <<>>, ![p].idx = 0]
                 /\ result' = NoResult
       ELSE /\ chain' = ch
            /\ IF ctx[p].api = "health"
               THEN /\ pc' = [pc EXCEPT ![p] = "check_select"]
                    /\ ctx' = [ctx EXCEPT ![p] =
                                 [CtxIdle EXCEPT !.api = "health",
                                                 !.recheck = TRUE,
                                                 !.chainValid = isChainValid(ch)]]
                    /\ result' = NoResult
               ELSE Return(pc, ctx, p,
                           Result("reloadChain", NoTx, TRUE, "none", Len(ch),
                                  FALSE))

\* loadFromDatabase(): the select of the block rows returns; an error is
\* logged and swallowed, so the caller goes on with what is loaded so far
loadFromDatabase(p, dbOk) ==
    /\ pc[p] = "load_blocks"
    /\ LET blocks == OrderByBlockNumber(Range(dbBlocks))
       IN  IF dbOk /\ Len(blocks) > 0
           THEN /\ pc' = [pc EXCEPT ![p] = "load_txs"]
                /\ ctx' = [ctx EXCEPT ![p].rows = blocks, ![p].idx = 1]
                /\ UNCHANGED <<memory, rateLimitMap, initialized,
                               healthCheckInterval, store, now, clientTxs, userKeys, validators, difficulty, admittedInWindow>>
                /\ result' = NoResult
           ELSE AfterLoad(p, chain, processedTransactions)

\* loadFromDatabase(), one turn of the loop: the select of the block's
\* transactions returns, their hashes enter the replay set and the block,
\* built with its stored hash and Merkle root, is pushed on the chain.  A
\* stored difficulty of 0 is read as 2 (blockData.difficulty || 2).
loadBlock(p, dbOk) ==
    /\ pc[p] = "load_txs"
    /\ LET blockData == ctx[p].rows[ctx[p].idx]
           transactions == SelectTransactions(dbBlocks, blockData)
           block == [blockData EXCEPT
                       !.transactions = transactions,
                       !.difficulty = IF blockData.difficulty = 0 THEN 2
                                      ELSE blockData.difficulty]
           ch == Append(chain, block)
           processed == processedTransactions \cup Range(TxHashes(transactions))
       IN  IF ~dbOk
           THEN AfterLoad(p, chain, processedTransactions)
           ELSE IF ctx[p].idx = Len(ctx[p].rows)
           THEN AfterLoad(p, ch, processed)
           ELSE /\ chain' = ch
                /\ processedTransactions' = processed
                /\ ctx' = [ctx EXCEPT ![p].idx = ctx[p].idx + 1]
                /\ UNCHANGED <<pc, pendingTransactions, rateLimitMap,
                               initialized, healthCheckInterval, store,
                               now, clientTxs, userKeys, validators, difficulty, admittedInWindow>>
                /\ result' = NoResult

\* BlockchainService.createGenesisBlock(): the insert of block 0 returns.
\* A failure is rethrown: initialize() leaves initialized false and the
\* call that awaited it is rejected.
createGenesisBlock(p, dbOk) ==
    /\ pc[p] = "genesis_insert"
    /\ IF dbOk /\ UniqueOk(dbBlocks, ctx[p].block)
       THEN /\ dbBlocks' = Append(dbBlocks, ctx[p].block)
            /\ dbTransactionCount' =
                  [n \in DOMAIN dbTransactionCount \cup {0} |->
                      IF n = 0 THEN 0 ELSE dbTransactionCount[n]]
            /\ UNCHANGED <<dbBatchRefs, dbValidators>>
            /\ pc' = [pc EXCEPT ![p] = "load_validators"]
            /\ ctx' = [ctx EXCEPT ![p].block = NoBlock]
            /\ UNCHANGED <<initialized>>
            /\ result' = NoResult
       ELSE /\ initialized' = FALSE
            /\ Return(pc, ctx, p,
                      Result(ctx[p].api, ctx[p].tx, FALSE, "InitializationFailed",
                             -1, FALSE))
            /\ UNCHANGED store
    /\ UNCHANGED <<memory, rateLimitMap, healthCheckInterval, now, clientTxs, userKeys, validators, difficulty, admittedInWindow>>

\* loadValidators(): the validators stored in the metadata join the set;
\* without a metadata row validator 1 joins it and saveValidators() stores
\* the set
loadValidators(set, row) ==
    IF row # NoRow
    THEN [validators |-> set \cup row[1], row |-> row]
    ELSE [validators |-> set \cup {1}, row |-> <<set \cup {1}>>]

\* initialize() from the answer of loadValidators() on: the chain is
\* validated (logged only), initialized becomes true, health monitoring
\* starts, and the call that awaited initialize() goes on
initialize(p) ==
    /\ pc[p] = "load_validators"
    /\ initialized' = TRUE
    /\ healthCheckInterval' = TRUE
    /\ validators' = loadValidators(validators, dbValidators).validators
    /\ dbValidators' = loadValidators(validators, dbValidators).row
    /\ IF ctx[p].api = "validateChain"
       THEN /\ Return(HealthPc(pc), HealthCtx(ctx, chain), p,
                      Result("validateChain", NoTx, isChainValid(chain),
                             "none", -1, FALSE))
            /\ UNCHANGED <<memory, difficulty, rateLimitMap, admittedInWindow>>
       ELSE IF ctx[p].api = "reset"
       THEN /\ Return(HealthPc(pc), HealthCtx(ctx, chain), p,
                      Result("reset", NoTx, TRUE, "none", Len(chain), FALSE))
            /\ UNCHANGED <<memory, difficulty, rateLimitMap, admittedInWindow>>
       ELSE ApplyAddBody(HealthPc(pc), HealthCtx(ctx, chain), p, ctx[p].tx,
                         ctx[p].auto)
    /\ UNCHANGED <<now, clientTxs, userKeys, dbBlocks, dbTransactionCount,
                   dbBatchRefs>>

\* validateChain(): an uninitialized service first awaits initialize(); the
\* answer is isChainValid() of the chain in memory
validateChain(p) ==
    /\ pc[p] = "idle"
    /\ IF ~initialized
       THEN /\ pc' = [pc EXCEPT ![p] = "load_blocks"]
            /\ ctx' = [ctx EXCEPT ![p] =
                         [CtxIdle EXCEPT !.api = "validateChain",
                                         !.inLoad = "initialize"]]
            /\ result' = NoResult
       ELSE Return(pc, ctx, p,
                   Result("validateChain", NoTx, isChainValid(chain), "none",
                          -1, FALSE))
    /\ UNCHANGED <<initialized, healthCheckInterval, memory, difficulty,
                   rateLimitMap, now, clientTxs, userKeys, validators, admittedInWindow, store>>

\* reloadChain(): chain, pending pool and replay set are emptied, then
\* loadFromDatabase() is awaited
reloadChain(p) ==
    /\ p \in Calls
    /\ pc[p] = "idle"
    /\ chain' = <<>>
    /\ pendingTransactions' = <<>>
    /\ processedTransactions' = {}
    /\ pc' = [pc EXCEPT ![p] = "load_blocks"]
    /\ ctx' = [ctx EXCEPT ![p] =
                 [CtxIdle EXCEPT !.api = "reloadChain", !.inLoad = "reloadChain"]]
    /\ UNCHANGED <<initialized, healthCheckInterval, rateLimitMap, now, clientTxs, userKeys, validators, difficulty, admittedInWindow,
                   store>>
    /\ result' = NoResult

\* resetBlockchain(): up to its first await, the delete of the
\* batch_blockchain_refs rows
resetBlockchain(p) ==
    /\ p \in Calls
    /\ pc[p] = "idle"
    /\ pc' = [pc EXCEPT ![p] = "reset_refs"]
    /\ ctx' = [ctx EXCEPT ![p] = [CtxIdle EXCEPT !.api = "reset"]]
    /\ UNCHANGED <<initialized, healthCheckInterval, memory, rateLimitMap,
                   now, clientTxs, userKeys, validators, difficulty,
                   admittedInWindow, store>>
    /\ result' = NoResult

\* what the catch of resetBlockchain() returns
ResetFailed(p) ==
    Return(pc, ctx, p, Result("reset", NoTx, FALSE, "ResetFailed", -1, FALSE))

\* resetBlockchain(): db.delete(batch_blockchain_refs) returns
resetDeleteRefs(p, dbOk) ==
    /\ pc[p] = "reset_refs"
    /\ IF dbOk
       THEN /\ dbBatchRefs' = {}
            /\ pc' = [pc EXCEPT ![p] = "reset_txs"]
            /\ UNCHANGED ctx
            /\ result' = NoResult
       ELSE /\ UNCHANGED dbBatchRefs
            /\ ResetFailed(p)
    /\ UNCHANGED <<initialized, healthCheckInterval, memory, rateLimitMap,
                   now, clientTxs, userKeys, validators, difficulty,
                   admittedInWindow, dbBlocks, dbTransactionCount,
                   dbValidators>>

\* resetBlockchain(): db.delete(blockchain_transactions) returns; the rows
\* go unless a batch_blockchain_refs row references one of them
\* (ON DELETE RESTRICT)
resetDeleteTransactions(p, dbOk) ==
    /\ pc[p] = "reset_txs"
    /\ IF dbOk /\ dbBatchRefs = {}
       THEN /\ dbBlocks' = [i \in DOMAIN dbBlocks |->
                              [dbBlocks[i] EXCEPT !.transactions = <<>>]]
            /\ pc' = [pc EXCEPT ![p] = "reset_blocks"]
            /\ UNCHANGED ctx
            /\ result' = NoResult
       ELSE /\ UNCHANGED dbBlocks
            /\ ResetFailed(p)
    /\ UNCHANGED <<initialized, healthCheckInterval, memory, rateLimitMap,
                   now, clientTxs, userKeys, validators, difficulty,
                   admittedInWindow, dbTransactionCount, dbBatchRefs,
                   dbValidators>>

\* resetBlockchain(): db.delete(blockchain_blocks) returns; the rows go
\* unless a blockchain_transactions row references one of them.  Then
\* chain, pending pool and replay set are emptied, initialized becomes
\* false and initialize() is awaited, which awaits loadFromDatabase().
resetDeleteBlocks(p, dbOk) ==
    /\ pc[p] = "reset_blocks"
    /\ IF dbOk /\ \A i \in DOMAIN dbBlocks : dbBlocks[i].transactions = <<>>
       THEN /\ dbBlocks' = <<>>
            /\ dbTransactionCount' = <<>>
            /\ chain' = <<>>
            /\ pendingTransactions' = <<>>
            /\ processedTransactions' = {}
            /\ initialized' = FALSE
            /\ pc' = [pc EXCEPT ![p] = "load_blocks"]
            /\ ctx' = [ctx EXCEPT ![p] =
                         [CtxIdle EXCEPT !.api = "reset",
                                         !.inLoad = "initialize"]]
            /\ result' = NoResult
       ELSE /\ UNCHANGED <<dbBlocks, dbTransactionCount, memory, initialized>>
            /\ ResetFailed(p)
    /\ UNCHANGED <<healthCheckInterval, rateLimitMap, now, clientTxs,
                   userKeys, validators, difficulty, admittedInWindow,
                   dbBatchRefs, dbValidators>>

\* the setInterval callback: performIntegrityCheckWithRecovery()
healthTimer ==
    /\ healthCheckInterval
    /\ pc[HealthTask] = "idle"
    /\ pc' = [pc EXCEPT ![HealthTask] = "check_select"]
    /\ ctx' = [ctx EXCEPT ![HealthTask] =
                 [CtxIdle EXCEPT !.api = "health",
                                 !.chainValid = isChainValid(chain)]]
    /\ UNCHANGED <<initialized, healthCheckInterval, memory, rateLimitMap,
                   now, clientTxs, userKeys, validators, difficulty, admittedInWindow, store>>
    /\ result' = NoResult

\* performIntegrityCheck() after its select: block count and tip hash are
\* compared with the store.  An exception (the select fails, or the store
\* has no row to compare the tip with) yields passed = false without an
\* issue list, which starts no recovery.  With issues, the first check of
\* performIntegrityCheckWithRecovery() goes into reloadChain().
performIntegrityCheck(dbOk) ==
    LET p == HealthTask
        threw == ~dbOk \/ (Len(chain) > 0 /\ Len(dbBlocks) = 0)
        issues == \/ ~ctx[p].chainValid
                  \/ Len(dbBlocks) # Len(chain)
                  \/ /\ Len(chain) > 0
                     /\ getLatestBlock(chain).hash # dbBlocks[Len(dbBlocks)].hash
    IN  /\ pc[p] = "check_select"
        /\ IF threw
           THEN /\ Return(pc, ctx, p,
                          Result("health", NoTx, FALSE, "CheckError", -1, FALSE))
                /\ UNCHANGED memory
           ELSE IF issues /\ ~ctx[p].recheck
           THEN /\ chain' = <<>>
                /\ pendingTransactions' = <<>>
                /\ processedTransactions' = {}
                /\ pc' = [pc EXCEPT ![p] = "load_blocks"]
                /\ ctx' = [ctx EXCEPT ![p] =
                             [CtxIdle EXCEPT !.api = "health",
                                             !.inLoad = "reloadChain"]]
                /\ result' = NoResult
           ELSE /\ Return(pc, ctx, p,
                          Result("health", NoTx, ~issues,
                                 IF issues THEN "IntegrityFailed" ELSE "none",
                                 -1, FALSE))
                /\ UNCHANGED memory
        /\ UNCHANGED <<initialized, healthCheckInterval, rateLimitMap, now, clientTxs, userKeys, validators, difficulty, admittedInWindow, store>>

\* clearRateLimits()
clearRateLimits ==
    /\ rateLimitMap # <<>>
    /\ rateLimitMap' = <<>>
    /\ admittedInWindow' = [u \in Users |-> 0]
    /\ UNCHANGED <<initialized, healthCheckInterval, memory, difficulty, now,
                   clientTxs, userKeys, validators, store, pc, ctx>>
    /\ result' = NoResult

\* time passes
Tick ==
    /\ now < MaxNow
    /\ now' = now + 1
    /\ UNCHANGED <<initialized, healthCheckInterval, memory, rateLimitMap,
                   clientTxs, userKeys, validators, difficulty, admittedInWindow, store, pc, ctx>>
    /\ result' = NoResult

\* the process is restarted: a new service object over the same store; calls
\* in flight are gone
restart ==
    /\ initialized \/ \E p \in Tasks : pc[p] # "idle"
    /\ initialized' = FALSE
    /\ healthCheckInterval' = FALSE
    /\ chain' = <<>>
    /\ pendingTransactions' = <<>>
    /\ processedTransactions' = {}
    /\ difficulty' = initialDifficulty
    /\ rateLimitMap' = <<>>
    /\ admittedInWindow' = [u \in Users |-> 0]
    /\ pc' = [p \in Tasks |-> "idle"]
    /\ ctx' = [p \in Tasks |-> CtxIdle]
    /\ validators' = {}
    /\ result' = NoResult
    /\ UNCHANGED <<now, clientTxs, userKeys, store>>

(***************************************************************************)
(* Actions of the KeyManager.  They leave the ledger alone.                *)
(***************************************************************************)
ledger == <<initialized, healthCheckInterval, memory, difficulty,
            rateLimitMap, now, clientTxs, admittedInWindow, validators,
            store>>

\* key_version is not raised beyond this
MaxKeyVersion == 3

\* the private keys in the relation or held by a call
KeysInUse ==
    {userKeys[i].encryptedPrivateKey[2] : i \in DOMAIN userKeys}
       \cup {ctx[p].privateKey : p \in Tasks}

\* generateKeysForUser(userId): a new key pair is drawn and the private key
\* encrypted; the call parks at the select of the user's rows
generateKeysForUser(p, userId, privateKey) ==
    /\ p \in Calls
    /\ pc[p] = "idle"
    /\ privateKey \in PrivateKeys \ KeysInUse
    /\ \A i \in DOMAIN userKeys : userKeys[i].keyVersion < MaxKeyVersion
    /\ pc' = [pc EXCEPT ![p] = "keys_select"]
    /\ ctx' = [ctx EXCEPT ![p] =
                 [CtxIdle EXCEPT !.api = "generateKeys", !.userId = userId,
                                 !.privateKey = privateKey,
                                 !.publicKey = PublicKeyOf(privateKey)]]
    /\ result' = NoResult
    /\ UNCHANGED <<ledger, userKeys>>

\* what the catch of generateKeysForUser() throws
GenerateFailed(p) ==
    Return(pc, ctx, p,
           KeyResult("generateKeys", ctx[p].userId, FALSE,
                     "GenerateFailed", NoKey, NoKey, 0))

\* generateKeysForUser(): the select returns the user's rows
generateSelect(p, dbOk) ==
    /\ pc[p] = "keys_select"
    /\ IF dbOk
       THEN /\ pc' = [pc EXCEPT ![p] = "keys_write"]
            /\ ctx' = [ctx EXCEPT ![p].existing = KeysOf(userKeys, ctx[p].userId)]
            /\ result' = NoResult
       ELSE GenerateFailed(p)
    /\ UNCHANGED <<ledger, userKeys>>

\* generateKeysForUser(): with rows found, every row of the user gets the
\* new keys and the version after that of the first row found (is_active
\* stays as it is); with none found a row of version 1 is inserted, active.
\* The keys and the version are returned.
generateWrite(p, dbOk) ==
    /\ pc[p] = "keys_write"
    /\ LET userId == ctx[p].userId
           existing == ctx[p].existing
           encrypted == encryptPrivateKey(ctx[p].privateKey, userId)
           keyVersion == IF Len(existing) > 0 THEN existing[1].keyVersion + 1
                         ELSE 1
           written ==
              IF Len(existing) > 0
              THEN [i \in DOMAIN userKeys |->
                      IF userKeys[i].userId = userId
                      THEN [userKeys[i] EXCEPT
                              !.publicKey = ctx[p].publicKey,
                              !.encryptedPrivateKey = encrypted,
                              !.keyVersion = keyVersion]
                      ELSE userKeys[i]]
              ELSE Append(userKeys,
                          [userId |-> userId, publicKey |-> ctx[p].publicKey,
                           encryptedPrivateKey |-> encrypted,
                           keyVersion |-> 1, isActive |-> TRUE])
       IN  IF dbOk /\ UniqueActiveOk(written)
           THEN /\ userKeys' = written
                /\ Return(pc, ctx, p,
                          KeyResult("generateKeys", userId, TRUE, "none",
                                    ctx[p].privateKey, ctx[p].publicKey,
                                    keyVersion))
           ELSE /\ UNCHANGED userKeys
                /\ GenerateFailed(p)
    /\ UNCHANGED ledger

\* KeyManager.getPrivateKey(userId): the select returns; no row, an
\* inactive first row and a failed decryption are thrown to the caller
getPrivateKeyCall(p, userId) ==
    /\ p \in Calls
    /\ pc[p] = "idle"
    /\ LET found == KeysOf(userKeys, userId)
       IN  IF Len(found) = 0
           THEN Return(pc, ctx, p,
                       KeyResult("getPrivateKey", userId, FALSE, "KeyMissing",
                                 NoKey, NoKey, 0))
           ELSE \E i \in DOMAIN found :
                   \E a \in {getPrivateKey(found[i], userId)} :
                      Return(pc, ctx, p,
                             KeyResult("getPrivateKey", userId,
                                       a.error = "none", a.error,
                                       a.privateKey, NoKey, 0))
    /\ UNCHANGED <<ledger, userKeys>>

\* KeyManager.getPublicKey(userId): the public key of the first row, null
\* without a row
getPublicKeyCall(p, userId) ==
    /\ p \in Calls
    /\ pc[p] = "idle"
    /\ LET found == KeysOf(userKeys, userId)
       IN  IF Len(found) = 0
           THEN Return(pc, ctx, p,
                       KeyResult("getPublicKey", userId, TRUE, "none",
                                 NoKey, NoKey, 0))
           ELSE \E i \in DOMAIN found :
                   Return(pc, ctx, p,
                          KeyResult("getPublicKey", userId, TRUE, "none",
                                    NoKey, found[i].publicKey, 0))
    /\ UNCHANGED <<ledger, userKeys>>

\* the user's rows with is_active set
SetActive(rows, userId, isActive) ==
    [i \in DOMAIN rows |->
        IF rows[i].userId = userId
        THEN [rows[i] EXCEPT !.isActive = isActive]
        ELSE rows[i]]

\* deactivateKeys(userId): every row of the user becomes inactive; a failed
\* update is answered with false
deactivateKeys(p, userId, dbOk) ==
    /\ p \in Calls
    /\ pc[p] = "idle"
    /\ IF dbOk
       THEN /\ userKeys' = SetActive(userKeys, userId, FALSE)
            /\ Return(pc, ctx, p,
                      KeyResult("deactivateKeys", userId, TRUE, "none",
                                NoKey, NoKey, 0))
       ELSE /\ UNCHANGED userKeys
            /\ Return(pc, ctx, p,
                      KeyResult("deactivateKeys", userId, FALSE, "UpdateFailed",
                                NoKey, NoKey, 0))
    /\ UNCHANGED ledger

\* reactivateKeys(userId): every row of the user becomes active, unless the
\* update fails, which the unique index makes it do for a user with two rows
reactivateKeys(p, userId, dbOk) ==
    /\ p \in Calls
    /\ pc[p] = "idle"
    /\ IF dbOk /\ UniqueActiveOk(SetActive(userKeys, userId, TRUE))
       THEN /\ userKeys' = SetActive(userKeys, userId, TRUE)
            /\ Return(pc, ctx, p,
                      KeyResult("reactivateKeys", userId, TRUE, "none",
                                NoKey, NoKey, 0))
       ELSE /\ UNCHANGED userKeys
            /\ Return(pc, ctx, p,
                      KeyResult("reactivateKeys", userId, FALSE, "UpdateFailed",
                                NoKey, NoKey, 0))
    /\ UNCHANGED ledger

(***************************************************************************)
(* addTransaction(transaction, true, validatorUserId) with a validator     *)
(* given, and the validator set.                                           *)
(***************************************************************************)
\* addTransaction() with a validatorUserId, on an initialized service: rate
\* limit and engine admission; the call then awaits the validator's private
\* key
addTransactionAs(p, tx, validatorUserId) ==
    /\ pc[p] = "idle"
    /\ tx \in clientTxs
    /\ initialized
    /\ validatorUserId # NoValidator
    /\ Len(chain) < MaxChain
    /\ Len(dbBlocks) < MaxChain
    /\ adjustDifficulty(chain, difficulty) <= MaxDifficulty
    /\ \E o \in {addTransactionBody(tx, FALSE)} :
       LET u == tx.actorUserId
           sameWindow == u \in DOMAIN rateLimitMap /\ now <= rateLimitMap[u].resetTime
           before == IF sameWindow THEN admittedInWindow[u] ELSE 0
       IN  /\ rateLimitMap' = o.map
           /\ admittedInWindow' =
                 [admittedInWindow EXCEPT ![u] =
                     IF o.error = "none" THEN before + 1 ELSE before]
           /\ chain' = o.chain
           /\ pendingTransactions' = o.pending
           /\ processedTransactions' = o.processed
           /\ difficulty' = o.difficulty
           /\ IF o.error = "none"
              THEN /\ pc' = [pc EXCEPT ![p] = "validator_private"]
                   /\ ctx' = [ctx EXCEPT ![p] =
                                [CtxIdle EXCEPT !.api = "addTransaction",
                                                !.tx = tx, !.auto = TRUE,
                                                !.userId = validatorUserId]]
                   /\ result' = NoResult
              ELSE Return(pc, ctx, p,
                          Result("addTransaction", tx, FALSE, o.error, -1,
                                 FALSE))
    /\ UNCHANGED <<initialized, healthCheckInterval, now, clientTxs, userKeys,
                   validators, store>>

\* forceCreateBlock(validatorUserId, validatorPrivateKey, validatorPublicKey)
\* in addTransaction(): a block goes on to persistBlock()
sealAs(p, validatorPrivateKey, validatorPublicKey) ==
    \E f \in {forceCreateBlockAs(chain, pendingTransactions, difficulty, now,
                                 ctx[p].userId, validatorPrivateKey,
                                 validatorPublicKey)} :
       /\ chain' = f.chain
       /\ pendingTransactions' = f.pending
       /\ difficulty' = f.difficulty
       /\ IF f.block # NoBlock
          THEN /\ pc' = [pc EXCEPT ![p] = "persist"]
               /\ ctx' = [ctx EXCEPT ![p].block = f.block]
               /\ result' = NoResult
          ELSE Return(pc, ctx, p,
                      Result("addTransaction", ctx[p].tx, TRUE, "none", -1,
                             TRUE))

\* await KeyManager.getPrivateKey(validatorUserId): when it throws, the
\* catch leaves both keys null and the block is created at once
awaitValidatorPrivateKey(p) ==
    /\ pc[p] = "validator_private"
    /\ LET found == KeysOf(userKeys, ctx[p].userId)
       IN  IF Len(found) = 0
           THEN sealAs(p, NoKey, NoKey)
           ELSE \E i \in DOMAIN found :
                   \E a \in {getPrivateKey(found[i], ctx[p].userId)} :
                      IF a.error # "none"
                      THEN sealAs(p, NoKey, NoKey)
                      ELSE /\ pc' = [pc EXCEPT ![p] = "validator_public"]
                           /\ ctx' = [ctx EXCEPT ![p].privateKey = a.privateKey]
                           /\ result' = NoResult
                           /\ UNCHANGED <<chain, pendingTransactions, difficulty>>
    /\ UNCHANGED <<processedTransactions, initialized, healthCheckInterval,
                   rateLimitMap, now, clientTxs, admittedInWindow, validators,
                   store, userKeys>>

\* await KeyManager.getPublicKey(validatorUserId), then the block is created
awaitValidatorPublicKey(p) ==
    /\ pc[p] = "validator_public"
    /\ LET found == KeysOf(userKeys, ctx[p].userId)
       IN  IF Len(found) = 0
           THEN sealAs(p, ctx[p].privateKey, NoKey)
           ELSE \E i \in DOMAIN found :
                   sealAs(p, ctx[p].privateKey, found[i].publicKey)
    /\ UNCHANGED <<processedTransactions, initialized, healthCheckInterval,
                   rateLimitMap, now, clientTxs, admittedInWindow, validators,
                   store, userKeys>>

\* BlockchainService.addValidator(userId): the id joins the validator set,
\* and saveValidators() writes the set to blockchain_metadata
addValidator(p, userId) ==
    /\ p \in Calls
    /\ pc[p] = "idle"
    /\ validators' = validators \cup {userId}
    /\ dbValidators' = <<validators \cup {userId}>>
    /\ Return(pc, ctx, p, Result("addValidator", NoTx, TRUE, "none", -1, FALSE))
    /\ UNCHANGED <<initialized, healthCheckInterval, memory, difficulty,
                   rateLimitMap, now, clientTxs, admittedInWindow, userKeys,
                   dbBlocks, dbTransactionCount, dbBatchRefs>>

(***************************************************************************)
(* getBatchHistory()                                                       *)
(***************************************************************************)
\* the rows of blockchain_transactions joined with their block rows: block
\* row i, transaction j of it
JoinedRows(rows) ==
    {<<i, j>> : i \in DOMAIN rows, j \in 1..blockSize} \cap
    {ij \in (DOMAIN rows) \X (1..blockSize) :
        ij[2] \in DOMAIN rows[ij[1]].transactions}

\* txs.map(...): what getBatchHistory() returns for a joined row
HistoryEntry(rows, ij) ==
    [transactionHash |-> rows[ij[1]].transactions[ij[2]].hash,
     transactionType |-> rows[ij[1]].transactions[ij[2]].transactionType,
     batchNo |-> rows[ij[1]].transactions[ij[2]].batchNo,
     actorUserId |-> rows[ij[1]].transactions[ij[2]].actorUserId,
     timestamp |-> rows[ij[1]].transactions[ij[2]].timestamp,
     blockNumber |-> rows[ij[1]].blockNumber,
     blockHash |-> rows[ij[1]].hash]

\* the results the select may give: the joined rows of the batch, each once,
\* ordered by the timestamp of the transaction (rows of one timestamp come
\* in any order)
BatchHistories(rows, batchNo) ==
    LET found == {ij \in JoinedRows(rows) :
                     rows[ij[1]].transactions[ij[2]].batchNo = batchNo}
        n == Cardinality(found)
    IN  {[k \in 1..n |-> HistoryEntry(rows, f[k])] :
            f \in {g \in [1..n -> found] :
                     /\ \A a, b \in 1..n : a # b => g[a] # g[b]
                     /\ \A a, b \in 1..n :
                           a < b => rows[g[a][1]].transactions[g[a][2]].timestamp
                                      <= rows[g[b][1]].transactions[g[b][2]].timestamp}}

\* getBatchHistory(batchNo) on an initialized service: the select returns,
\* or fails and the catch returns []
getBatchHistory(p, batchNo, dbOk) ==
    /\ p \in Calls
    /\ pc[p] = "idle"
    /\ initialized
    /\ IF dbOk
       THEN \E h \in BatchHistories(dbBlocks, batchNo) :
               Return(pc, ctx, p,
                      [Result("getBatchHistory", NoTx, TRUE, "none", -1, FALSE)
                          EXCEPT !.batchNo = batchNo, !.history = h])
       ELSE Return(pc, ctx, p,
                   [Result("getBatchHistory", NoTx, FALSE, "none", -1, FALSE)
                       EXCEPT !.batchNo = batchNo])
    /\ UNCHANGED <<ledger, userKeys>>

(***************************************************************************)
(* Spec: one client that awaits each call before it makes the next, with   *)
(* the integrity checks running beside it.  Writes to the store may fail.  *)
(***************************************************************************)
Client == 1

InitOneUser ==
    /\ Init
    /\ clientTxs = PoolOneUser

Next ==
    \/ \E tx \in TxPool, auto \in BOOLEAN : addTransaction(Client, tx, auto)
    \/ \E dbOk \in BOOLEAN : persistBlock(Client, dbOk)
    \/ \E p \in {Client, HealthTask} : loadFromDatabase(p, TRUE)
    \/ \E p \in {Client, HealthTask} : loadBlock(p, TRUE)
    \/ \E dbOk \in BOOLEAN : createGenesisBlock(Client, dbOk)
    \/ initialize(Client)
    \/ reloadChain(Client)
    \/ healthTimer
    \/ performIntegrityCheck(TRUE)
    \/ clearRateLimits

Spec == InitOneUser /\ [][Next]_vars

(***************************************************************************)
(* SpecAdmission: one client submitting for one or two users over a store  *)
(* that does not fail: the admission gates.                                *)
(***************************************************************************)
NextAdmission ==
    \/ \E tx \in TxPool, auto \in BOOLEAN : addTransaction(Client, tx, auto)
    \/ persistBlock(Client, TRUE)
    \/ \E p \in {Client, HealthTask} : loadFromDatabase(p, TRUE)
    \/ loadBlock(HealthTask, TRUE)
    \/ createGenesisBlock(Client, TRUE)
    \/ initialize(Client)
    \/ performIntegrityCheck(TRUE)
    \/ clearRateLimits

SpecAdmission == Init /\ [][NextAdmission]_vars

(***************************************************************************)
(* SpecRateWindow: one client submitting while the clock advances, so that *)
(* rate windows end.  Nothing is force-sealed.                             *)
(***************************************************************************)
NextRateWindow ==
    \/ \E tx \in TxPool : addTransaction(Client, tx, FALSE)
    \/ loadFromDatabase(Client, TRUE)
    \/ createGenesisBlock(Client, TRUE)
    \/ initialize(Client)
    \/ Tick

SpecRateWindow == Init /\ [][NextRateWindow]_vars

(***************************************************************************)
(* SpecValidity: one client submitting well-formed and defective           *)
(* transactions.                                                           *)
(***************************************************************************)
InitValidity ==
    /\ clientTxs = PoolValidity
    /\ Constructed

NextValidity ==
    \/ \E tx \in PoolValidity : addTransaction(Client, tx, FALSE)
    \/ loadFromDatabase(Client, TRUE)
    \/ createGenesisBlock(Client, TRUE)
    \/ initialize(Client)
    \/ clearRateLimits

SpecValidity == InitValidity /\ [][NextValidity]_vars

(***************************************************************************)
(* SpecConcurrent: API calls that overlap (Express serves each request as  *)
(* its own async handler), across restarts of the process.                 *)
(***************************************************************************)
NextConcurrent ==
    \/ \E p \in Calls, tx \in TxPool : addTransaction(p, tx, TRUE)
    \/ \E p \in Calls : persistBlock(p, TRUE)
    \/ \E p \in Tasks : loadFromDatabase(p, TRUE)
    \/ \E p \in Tasks : loadBlock(p, TRUE)
    \/ \E p \in Calls : createGenesisBlock(p, TRUE)
    \/ \E p \in Calls : initialize(p)
    \/ performIntegrityCheck(TRUE)
    \/ restart

SpecConcurrent == InitOneUser /\ [][NextConcurrent]_vars
(***************************************************************************)
(* SpecChainValidation: validateChain() on a fresh process over a store    *)
(* whose rows were written by anyone with access to the database.  The     *)
(* stores are built block by block: each block after the first is what     *)
(* createBlock() would seal on its predecessor, or that block with one     *)
(* thing changed.                                                          *)
(***************************************************************************)
ForgedHash == <<"forged">>
ValidatorKey == "key"

Rehash(b) == With(b, LAMBDA x : [x EXCEPT !.hash = HashOf(x)])

\* first rows: block 0 as createGenesisBlock() stores it, the same with
\* another previous_hash, the same with another block_number
FirstRows ==
    {Blockchain_createGenesisBlock(0),
     Rehash([Blockchain_createGenesisBlock(0) EXCEPT !.previousHash = ForgedHash]),
     Rehash([Blockchain_createGenesisBlock(0) EXCEPT !.blockNumber = 1])}

\* the block createBlock() seals on prev, given validator id and key
Sealed(prev, transactions, validatorUserId, validatorPublicKey) ==
    mineBlock(Rehash([Block(prev.blockNumber + 1, prev.hash, transactions, 0,
                            0, initialDifficulty)
                        EXCEPT !.validatorUserId = validatorUserId,
                               !.validatorPublicKey = validatorPublicKey]),
              initialDifficulty)

\* rows that may follow prev
NextRows(prev) ==
    LET good == Sealed(prev, <<Tx1>>, NoValidator, NoKey)
        signed == signBlock(Sealed(prev, <<Tx1>>, 1, ValidatorKey),
                            ValidatorKey, 1)
    IN  {good,
         signed,
         \* the signature is not the validator's
         [signed EXCEPT !.validatorSignature = ForgedHash],
         \* a signature with no public key beside it
         [good EXCEPT !.validatorSignature = ForgedHash],
         \* the stored hash is not the hash of the fields
         [good EXCEPT !.hash = ForgedHash],
         \* the stored Merkle root is not that of the transactions
         Rehash([good EXCEPT !.merkleRoot = <<>>]),
         \* not mined: the hash does not meet the difficulty
         Rehash([good EXCEPT !.nonce = 0]),
         \* linked to another block
         mineBlock(Block(prev.blockNumber + 1, ForgedHash, <<Tx1>>, 0, 0,
                         initialDifficulty), initialDifficulty),
         \* a number skipped
         mineBlock(Block(prev.blockNumber + 2, prev.hash, <<Tx1>>, 0, 0,
                         initialDifficulty), initialDifficulty),
         \* a transaction without batch number
         Sealed(prev, <<TxNoField>>, NoValidator, NoKey)}

\* UNIQUE(block_number), UNIQUE(block_hash), UNIQUE(transaction_hash)
RowsUnique(rows) ==
    \A i, j \in DOMAIN rows :
       i # j => /\ rows[i].blockNumber # rows[j].blockNumber
                /\ rows[i].hash # rows[j].hash

StoreInputs ==
    {<<>>}
    \cup {<<g>> : g \in FirstRows}
    \cup {r \in UNION {{<<g, b>> : b \in NextRows(g)} : g \in FirstRows} :
            RowsUnique(r)}
    \cup {r \in UNION {UNION {{<<g, b, c>> : c \in NextRows(b)}
                                 : b \in NextRows(g)} : g \in FirstRows} :
            RowsUnique(r)}

InitChainValidation ==
    /\ clientTxs = PoolOneUser
    /\ Fresh
    /\ dbBlocks \in StoreInputs
    /\ dbTransactionCount = CountsOf(dbBlocks)
    /\ dbBatchRefs = RefsOf(dbBlocks)
    /\ dbValidators = NoRow
    /\ userKeys = <<>>

NextChainValidation ==
    \/ validateChain(Client)
    \/ loadFromDatabase(Client, TRUE)
    \/ loadBlock(Client, TRUE)
    \/ createGenesisBlock(Client, TRUE)
    \/ initialize(Client)

SpecChainValidation == InitChainValidation /\ [][NextChainValidation]_vars

(***************************************************************************)
(* SpecDifficulty: sealing on chains of every age.  The service is         *)
(* initialized over a chain of up to MaxSealed blocks whose timestamps     *)
(* are any non-decreasing values up to MaxStamp, with any difficulty the   *)
(* engine may have been left at; the client then submits transactions      *)
(* that are sealed at once.                                                *)
(***************************************************************************)
MaxSealed == 4
MaxStamp == 5

Tx4 == Transaction(2, "B2", "n7", TRUE)
Tx5 == Transaction(2, "B3", "n8", TRUE)
Tx6 == Transaction(1, "B3", "n9", TRUE)
Tx7 == Transaction(2, "B4", "n10", TRUE)
SealedTxs == <<Tx1, Tx2, Tx4, Tx7>>
PoolDifficulty == {Tx5, Tx6}

\* the chain createGenesisBlock() and createBlock() leave behind when they
\* run at the times stamps[1], stamps[2], ...
RECURSIVE ChainAt(_)
ChainAt(stamps) ==
    IF Len(stamps) = 1
    THEN <<Blockchain_createGenesisBlock(stamps[1])>>
    ELSE LET ch == ChainAt(SubSeq(stamps, 1, Len(stamps) - 1))
         IN  Append(ch, mineBlock(Block(Len(ch), ch[Len(ch)].hash,
                                        <<SealedTxs[Len(ch)]>>,
                                        stamps[Len(stamps)], 0,
                                        initialDifficulty),
                                  initialDifficulty))

StampSeqs ==
    {st \in UNION {[1..k -> 0..MaxStamp] : k \in 1..MaxSealed} :
        \A i \in 1..(Len(st) - 1) : st[i] <= st[i + 1]}

InitDifficulty ==
    /\ clientTxs = PoolDifficulty
    /\ admittedInWindow = [u \in Users |-> 0]
    /\ initialized = TRUE
    /\ healthCheckInterval = TRUE
    /\ \E st \in StampSeqs :
          /\ chain = ChainAt(st)
          /\ now = st[Len(st)]
    /\ dbBlocks = chain
    /\ dbTransactionCount = CountsOf(dbBlocks)
    /\ dbBatchRefs = RefsOf(dbBlocks)
    /\ validators = {1}
    /\ dbValidators = <<{1}>>
    /\ userKeys = <<>>
    /\ pendingTransactions = <<>>
    /\ processedTransactions =
          UNION {Range(TxHashes(chain[i].transactions)) : i \in DOMAIN chain}
    /\ difficulty \in 1..MaxDifficulty
    /\ rateLimitMap = <<>>
    /\ pc = [p \in Tasks |-> "idle"]
    /\ ctx = [p \in Tasks |-> CtxIdle]
    /\ result = NoResult

NextDifficulty ==
    \/ \E tx \in PoolDifficulty : addTransactionCall(Client, tx, TRUE)
    \/ persistBlock(Client, TRUE)

SpecDifficulty == InitDifficulty /\ [][NextDifficulty]_vars

(***************************************************************************)
(* SpecReload: reset, seed, reload.  One client on an empty store seals    *)
(* transactions one by one and calls reloadChain() between its calls;      *)
(* every write succeeds and no integrity check runs beside it.             *)
(***************************************************************************)
NextReload ==
    \/ \E tx \in TxPool : addTransaction(Client, tx, TRUE)
    \/ persistBlock(Client, TRUE)
    \/ loadFromDatabase(Client, TRUE)
    \/ loadBlock(Client, TRUE)
    \/ createGenesisBlock(Client, TRUE)
    \/ initialize(Client)
    \/ reloadChain(Client)
    \/ Tick

SpecReload == Init /\ [][NextReload]_vars

(***************************************************************************)
(* SpecTamper: the recovery scenario.  The service is initialized over a   *)
(* chain of up to TamperChainLen blocks sealed one clock tick apart (no    *)
(* difficulty adjustment falls due), and memory is what the store holds.   *)
(* Someone with access to the database then overwrites the block_hash of   *)
(* one row while no call is reading the store; the integrity checks and    *)
(* validateChain() run on.                                                 *)
(***************************************************************************)
TamperChainLen == 5

\* UPDATE blockchain_blocks SET block_hash = ... WHERE block_number = ...
\* from outside the service.  performIntegrityCheck() selects the rows
\* without ORDER BY: the updated row is returned at its old position or
\* after all other rows.
tamperBlockHash(i, moved) ==
    /\ \A p \in Tasks : pc[p] = "idle"
    /\ i \in DOMAIN dbBlocks
    /\ \A j \in DOMAIN dbBlocks : dbBlocks[j].hash # ForgedHash
    /\ dbBlocks' =
          IF moved
          THEN Append(SubSeq(dbBlocks, 1, i - 1)
                         \o SubSeq(dbBlocks, i + 1, Len(dbBlocks)),
                      [dbBlocks[i] EXCEPT !.hash = ForgedHash])
          ELSE [dbBlocks EXCEPT ![i].hash = ForgedHash]
    /\ UNCHANGED <<initialized, healthCheckInterval, memory, difficulty,
                   rateLimitMap, now, clientTxs, userKeys, validators,
                   admittedInWindow, dbTransactionCount, dbBatchRefs,
                   dbValidators, pc, ctx>>
    /\ result' = NoResult

InitTamper ==
    /\ clientTxs = PoolDifficulty
    /\ admittedInWindow = [u \in Users |-> 0]
    /\ initialized = TRUE
    /\ healthCheckInterval = TRUE
    /\ \E k \in 3..TamperChainLen :
          /\ chain = ChainAt([i \in 1..k |-> i - 1])
          /\ now = k - 1
    /\ dbBlocks = chain
    /\ dbTransactionCount = CountsOf(dbBlocks)
    /\ dbBatchRefs = RefsOf(dbBlocks)
    /\ validators = {1}
    /\ dbValidators = <<{1}>>
    /\ userKeys = <<>>
    /\ pendingTransactions = <<>>
    /\ processedTransactions =
          UNION {Range(TxHashes(chain[i].transactions)) : i \in DOMAIN chain}
    /\ difficulty = initialDifficulty
    /\ rateLimitMap = <<>>
    /\ pc = [p \in Tasks |-> "idle"]
    /\ ctx = [p \in Tasks |-> CtxIdle]
    /\ result = NoResult

NextTamper ==
    \/ \E i \in 1..TamperChainLen, moved \in BOOLEAN : tamperBlockHash(i, moved)
    \/ healthTimer
    \/ performIntegrityCheck(TRUE)
    \/ loadFromDatabase(HealthTask, TRUE)
    \/ loadBlock(HealthTask, TRUE)
    \/ validateChain(Client)

SpecTamper == InitTamper /\ [][NextTamper]_vars

(***************************************************************************)
(* SpecLoadFault: one client sealing and reloading, with the integrity     *)
(* checks beside it, over a store whose reads may fail: the select of the  *)
(* block rows or the select of a block's transactions is rejected.         *)
(***************************************************************************)
NextLoadFault ==
    \/ \E tx \in TxPool : addTransaction(Client, tx, TRUE)
    \/ persistBlock(Client, TRUE)
    \/ \E p \in {Client, HealthTask}, dbOk \in BOOLEAN : loadFromDatabase(p, dbOk)
    \/ \E p \in {Client, HealthTask}, dbOk \in BOOLEAN : loadBlock(p, dbOk)
    \/ createGenesisBlock(Client, TRUE)
    \/ initialize(Client)
    \/ reloadChain(Client)
    \/ healthTimer
    \/ performIntegrityCheck(TRUE)

SpecLoadFault == InitOneUser /\ [][NextLoadFault]_vars

(***************************************************************************)
(* SpecReset: one client sealing transactions and resetting the ledger,    *)
(* with the integrity checks beside it.  The deletes of the reset, the     *)
(* insert of the genesis block and the persistence of a block may fail.    *)
(***************************************************************************)
NextReset ==
    \/ \E tx \in TxPool : addTransaction(Client, tx, TRUE)
    \/ \E dbOk \in BOOLEAN : persistBlock(Client, dbOk)
    \/ \E p \in {Client, HealthTask} : loadFromDatabase(p, TRUE)
    \/ \E p \in {Client, HealthTask} : loadBlock(p, TRUE)
    \/ \E dbOk \in BOOLEAN : createGenesisBlock(Client, dbOk)
    \/ initialize(Client)
    \/ resetBlockchain(Client)
    \/ \E dbOk \in BOOLEAN : resetDeleteRefs(Client, dbOk)
    \/ \E dbOk \in BOOLEAN : resetDeleteTransactions(Client, dbOk)
    \/ \E dbOk \in BOOLEAN : resetDeleteBlocks(Client, dbOk)
    \/ healthTimer
    \/ performIntegrityCheck(TRUE)

SpecReset == InitOneUser /\ [][NextReset]_vars

(***************************************************************************)
(* SpecKeys: one client of the KeyManager that awaits each call before it  *)
(* makes the next.  Updates of is_active may fail.                         *)
(***************************************************************************)
NextKeys ==
    \/ \E u \in Users, k \in PrivateKeys : generateKeysForUser(Client, u, k)
    \/ generateSelect(Client, TRUE)
    \/ generateWrite(Client, TRUE)
    \/ \E u \in Users : getPrivateKeyCall(Client, u)
    \/ \E u \in Users : getPublicKeyCall(Client, u)
    \/ \E u \in Users, dbOk \in BOOLEAN : deactivateKeys(Client, u, dbOk)
    \/ \E u \in Users, dbOk \in BOOLEAN : reactivateKeys(Client, u, dbOk)

SpecKeys == Init /\ [][NextKeys]_vars

(***************************************************************************)
(* SpecKeysConcurrent: calls of the KeyManager that overlap.               *)
(***************************************************************************)
NextKeysConcurrent ==
    \/ \E p \in Calls, u \in Users, k \in PrivateKeys :
          generateKeysForUser(p, u, k)
    \/ \E p \in Calls : generateSelect(p, TRUE)
    \/ \E p \in Calls : generateWrite(p, TRUE)
    \/ \E p \in Calls, u \in Users : deactivateKeys(p, u, TRUE)
    \/ \E p \in Calls, u \in Users : reactivateKeys(p, u, TRUE)

SpecKeysConcurrent == InitOneUser /\ [][NextKeysConcurrent]_vars

(***************************************************************************)
(* SpecValidators: one client that generates a key pair for a user, adds   *)
(* validators and has transactions sealed, with and without a validator    *)
(* named.                                                                  *)
(***************************************************************************)
NextValidators ==
    \/ \E tx \in TxPool : addTransaction(Client, tx, TRUE)
    \/ \E tx \in TxPool, v \in Users : addTransactionAs(Client, tx, v)
    \/ awaitValidatorPrivateKey(Client)
    \/ awaitValidatorPublicKey(Client)
    \/ persistBlock(Client, TRUE)
    \/ loadFromDatabase(Client, TRUE)
    \/ createGenesisBlock(Client, TRUE)
    \/ initialize(Client)
    \/ \E u \in Users : generateKeysForUser(Client, u, "priv1")
    \/ generateSelect(Client, TRUE)
    \/ generateWrite(Client, TRUE)
    \/ \E u \in Users : addValidator(Client, u)

SpecValidators == InitOneUser /\ [][NextValidators]_vars

(***************************************************************************)
(* SpecRoundTrip: toJSON() and fromJSON() of Block and of Transaction.     *)
(* The chain holds the block and the pool the transaction that are         *)
(* converted; one call converts the block, another the transaction.        *)
(***************************************************************************)
\* new Date(value) of a Date: a Date of the same time value
NewDate(value) == value + 0

\* a || b on numbers: 0 is falsy
OrDefault(value, default) == IF value = 0 THEN default ELSE value

\* CryptoUtils.generateNonce(), taken when no nonce is given
GeneratedNonce == "generated"

\* Transaction.toJSON(): the fields, hash included
Transaction_toJSON(tx) ==
    [transactionType |-> tx.transactionType,
     actorUserId |-> tx.actorUserId, batchNo |-> tx.batchNo,
     sigOk |-> tx.sigOk, timestamp |-> tx.timestamp, nonce |-> tx.nonce,
     hash |-> tx.hash]

\* Transaction.fromJSON(): a new Transaction of the fields; the hash is not
\* passed on, so the constructor computes it
Transaction_fromJSON(data) ==
    [TransactionAt(data.actorUserId, data.batchNo,
                   IF data.nonce = "" THEN GeneratedNonce ELSE data.nonce,
                   data.sigOk, NewDate(data.timestamp), NoHash)
        EXCEPT !.transactionType = data.transactionType]

\* Block.toJSON(): the fields and the number of transactions
Block_toJSON(b) ==
    [blockNumber |-> b.blockNumber, previousHash |-> b.previousHash,
     merkleRoot |-> b.merkleRoot, timestamp |-> b.timestamp,
     nonce |-> b.nonce, difficulty |-> b.difficulty, hash |-> b.hash,
     validatorUserId |-> b.validatorUserId,
     validatorPublicKey |-> b.validatorPublicKey,
     validatorSignature |-> b.validatorSignature,
     transactionCount |-> Len(b.transactions),
     transactions |-> b.transactions]

\* Block.fromJSON(): a new Block with nonce || 0 and difficulty || 2; hash
\* and merkleRoot are not passed on, so the constructor computes them
Block_fromJSON(data) ==
    Rehash([Block(data.blockNumber, data.previousHash, data.transactions,
                  NewDate(data.timestamp), OrDefault(data.nonce, 0),
                  OrDefault(data.difficulty, 2))
              EXCEPT !.validatorUserId = data.validatorUserId,
                     !.validatorPublicKey = data.validatorPublicKey,
                     !.validatorSignature = data.validatorSignature])

\* the blocks converted: the genesis block and blocks that may follow it
RoundTripBlocks ==
    {Blockchain_createGenesisBlock(0), Blockchain_createGenesisBlock(1)}
       \cup NextRows(Blockchain_createGenesisBlock(0))
       \cup {Sealed(Blockchain_createGenesisBlock(0), <<Tx1, Tx2>>,
                    NoValidator, NoKey)}

Converter == 2

InitRoundTrip ==
    /\ clientTxs = PoolValidity
    /\ admittedInWindow = [u \in Users |-> 0]
    /\ initialized = FALSE
    /\ healthCheckInterval = FALSE
    /\ chain \in {<<b>> : b \in RoundTripBlocks}
    /\ pendingTransactions \in {<<tx>> : tx \in PoolValidity}
    /\ processedTransactions = {}
    /\ validators = {}
    /\ difficulty = initialDifficulty
    /\ rateLimitMap = <<>>
    /\ now = 0
    /\ pc = [p \in Tasks |-> "idle"]
    /\ ctx = [p \in Tasks |-> CtxIdle]
    /\ result = NoResult
    /\ dbBlocks = <<>>
    /\ dbTransactionCount = <<>>
    /\ dbBatchRefs = {}
    /\ dbValidators = NoRow
    /\ userKeys = <<>>

\* block.toJSON() of the block in the chain
blockToJSON(p) ==
    /\ pc[p] = "idle"
    /\ pc' = [pc EXCEPT ![p] = "block_json"]
    /\ ctx' = [ctx EXCEPT ![p].rows = <<Block_toJSON(chain[1])>>]
    /\ UNCHANGED <<ledger, userKeys, result>>

\* Block.fromJSON() of that object
blockFromJSON(p) ==
    /\ pc[p] = "block_json"
    /\ pc' = [pc EXCEPT ![p] = "block_done"]
    /\ ctx' = [ctx EXCEPT ![p].block = Block_fromJSON(ctx[p].rows[1])]
    /\ UNCHANGED <<ledger, userKeys, result>>

\* transaction.toJSON() of the transaction in the pool
transactionToJSON(p) ==
    /\ pc[p] = "idle"
    /\ pc' = [pc EXCEPT ![p] = "tx_json"]
    /\ ctx' = [ctx EXCEPT ![p].rows = <<Transaction_toJSON(pendingTransactions[1])>>]
    /\ UNCHANGED <<ledger, userKeys, result>>

\* Transaction.fromJSON() of that object
transactionFromJSON(p) ==
    /\ pc[p] = "tx_json"
    /\ pc' = [pc EXCEPT ![p] = "tx_done"]
    /\ ctx' = [ctx EXCEPT ![p].tx = Transaction_fromJSON(ctx[p].rows[1])]
    /\ UNCHANGED <<ledger, userKeys, result>>

NextRoundTrip ==
    \/ blockToJSON(Client)
    \/ blockFromJSON(Client)
    \/ transactionToJSON(Converter)
    \/ transactionFromJSON(Converter)

SpecRoundTrip == InitRoundTrip /\ [][NextRoundTrip]_vars

(***************************************************************************)
(* SpecMerkle: new Block({transactions}) over lists of transactions, which *)
(* computes the Merkle root of the list.                                   *)
(***************************************************************************)
MerkleMaxLen == 6

RECURSIVE SeqsUpTo(_, _)
SeqsUpTo(S, n) ==
    IF n = 0 THEN {<<>>}
    ELSE SeqsUpTo(S, n - 1)
            \cup {Append(q, x) : q \in {r \in SeqsUpTo(S, n - 1) : Len(r) = n - 1},
                                 x \in S}

InitMerkle ==
    /\ clientTxs = PoolTwoUsers
    /\ admittedInWindow = [u \in Users |-> 0]
    /\ initialized = FALSE
    /\ healthCheckInterval = FALSE
    /\ chain = <<>>
    /\ pendingTransactions \in SeqsUpTo({Tx1, Tx3}, MerkleMaxLen)
    /\ processedTransactions = {}
    /\ validators = {}
    /\ difficulty = initialDifficulty
    /\ rateLimitMap = <<>>
    /\ now = 0
    /\ pc = [p \in Tasks |-> "idle"]
    /\ ctx = [p \in Tasks |-> CtxIdle]
    /\ result = NoResult
    /\ dbBlocks = <<>>
    /\ dbTransactionCount = <<>>
    /\ dbBatchRefs = {}
    /\ dbValidators = NoRow
    /\ userKeys = <<>>

\* new Block({blockNumber, previousHash, transactions, ...})
newBlock(p) ==
    /\ pc[p] = "idle"
    /\ pc' = [pc EXCEPT ![p] = "block_built"]
    /\ ctx' = [ctx EXCEPT ![p].block =
                 Block(1, ZeroHash, pendingTransactions, now, 0,
                       initialDifficulty)]
    /\ UNCHANGED <<ledger, userKeys, result>>

NextMerkle == newBlock(Client)

SpecMerkle == InitMerkle /\ [][NextMerkle]_vars

(***************************************************************************)
(* SpecBatch: one client submitting transactions of several types for one  *)
(* batch and asking for the batch's history.                               *)
(***************************************************************************)
TxHarvest == TransactionOfType("HARVEST_RECORD", 1, "B1", "n11", 1)
TxTest == TransactionOfType("TEST", 1, "B1", "n12", 0)
PoolBatch == {Tx1, Tx3, TxHarvest, TxTest}

InitBatch ==
    /\ clientTxs = PoolBatch
    /\ Constructed

NextBatch ==
    \/ \E tx \in PoolBatch, auto \in BOOLEAN : addTransaction(Client, tx, auto)
    \/ persistBlock(Client, TRUE)
    \/ loadFromDatabase(Client, TRUE)
    \/ createGenesisBlock(Client, TRUE)
    \/ initialize(Client)
    \/ \E b \in {"B1", "B2"}, dbOk \in BOOLEAN : getBatchHistory(Client, b, dbOk)

SpecBatch == InitBatch /\ [][NextBatch]_vars

(***************************************************************************)
(* SpecFifo: one client on a fresh process, over an empty store or over    *)
(* the store of a service that sealed and persisted its first two          *)
(* transactions in one block.  Transactions are pooled or force-sealed,    *)
(* and the chain is reloaded.                                              *)
(***************************************************************************)
FifoStore ==
    createBlock(<<Blockchain_createGenesisBlock(0)>>, <<Tx4, Tx7>>,
                initialDifficulty, 0).chain

InitFifo ==
    /\ clientTxs = PoolOneUser
    /\ Fresh
    /\ dbBlocks \in {<<>>, FifoStore}
    /\ dbTransactionCount = CountsOf(dbBlocks)
    /\ dbBatchRefs = RefsOf(dbBlocks)
    /\ dbValidators = NoRow
    /\ userKeys = <<>>

NextFifo ==
    \/ \E tx \in TxPool, auto \in BOOLEAN : addTransaction(Client, tx, auto)
    \/ persistBlock(Client, TRUE)
    \/ loadFromDatabase(Client, TRUE)
    \/ loadBlock(Client, TRUE)
    \/ createGenesisBlock(Client, TRUE)
    \/ initialize(Client)
    \/ reloadChain(Client)

SpecFifo == InitFifo /\ [][NextFifo]_vars

(***************************************************************************)
(* Observations used by the properties below.                              *)
(***************************************************************************)
BlockNumbers(rows) == {rows[i].blockNumber : i \in DOMAIN rows}

\* the positions <<block, transaction>> of a chain
Slots(ch) == UNION {{<<i, j>> : j \in DOMAIN ch[i].transactions} : i \in DOMAIN ch}

InSomeBlock(tx, ch) == \E b \in Range(ch) : tx \in Range(b.transactions)

\* the step in which the client's addTransaction() runs its try block: the
\* call either returns or parks at persistBlock()
AddBodyStep ==
    /\ pc[Client] \in {"idle", "load_validators"}
    /\ pc'[Client] = "persist" \/ result'.api = "addTransaction"

\* the transaction that step was called with
SubmittedTx ==
    IF pc'[Client] = "persist" THEN ctx'[Client].tx ELSE result'.tx

\* the step admitted its transaction into the pending pool
Admitted ==
    /\ AddBodyStep
    /\ SubmittedTx.hash \in processedTransactions' \ processedTransactions

(***************************************************************************)
(* Properties                                                              *)
(***************************************************************************)
\* C1: when persistBlock() fails inside addTransaction(), the block that
\* was appended in memory is taken off the chain again before the error is
\* returned, and the rest of the chain is as it was.
C1_PersistFailureRollsBack ==
    [][(pc[Client] = "persist" /\ result'.error = "PersistenceFailed")
          => LET Other(b) == b # ctx[Client].block
             IN  chain' = SelectSeq(chain, Other)]_vars

\* C2: when addTransaction() has just returned block N, the store holds a
\* block for every number 0..N; and the block numbers in the store never
\* have a gap.
C2_StoreHasNoGaps ==
    LET stored == BlockNumbers(dbBlocks)
    IN  /\ (result.api = "addTransaction" /\ result.blockNumber >= 0)
              => \A n \in 0..result.blockNumber : n \in stored
        /\ \A n \in stored : \A m \in 0..n : m \in stored

\* C3: while a call stays parked at the persistence of the block it
\* appended, no other call creates a block and no transaction is admitted.
C3_SealingSectionsDoNotOverlap ==
    [][\A p \in Calls :
          (pc[p] = "persist" /\ pc'[p] = "persist")
             => /\ admittedInWindow' = admittedInWindow
                /\ \A q \in Calls \ {p} :
                      pc'[q] = "persist" => pc[q] = "persist"]_vars

\* C4: with overlapping initialize() calls no block is in the chain twice,
\* at most one block is a genesis block, and once the service is
\* initialized with no call in flight the chain is the stored chain.
C4_ConcurrentInitializeLoadsOnce ==
    /\ \A i, j \in DOMAIN chain : i # j => chain[i].hash # chain[j].hash
    /\ Cardinality({i \in DOMAIN chain : chain[i].blockNumber = 0}) <= 1
    /\ (initialized /\ \A p \in Tasks : pc[p] = "idle")
          => chain = OrderByBlockNumber(Range(dbBlocks))

\* C5: an admission that fills the pending pool to blockSize puts the
\* transaction in a block, and the call does not return before that block
\* is in the store; it returns that block.
C5_AutoSealedBlockIsPersisted ==
    [][(Admitted /\ Len(pendingTransactions) = blockSize - 1)
          => \E b \in Range(chain') :
                /\ SubmittedTx \in Range(b.transactions)
                /\ result'.api = "addTransaction"
                      => /\ result'.blockNumber = b.blockNumber
                         /\ b \in Range(dbBlocks')]_vars

\* C6: a pending transaction stays pending or is in a block of the chain
\* after every step (add, seal, reloadChain, auto-recovery), and no
\* transaction is in two blocks.
C6_PendingEndsInExactlyOneBlock ==
    [][/\ \A tx \in Range(pendingTransactions) :
             tx \in Range(pendingTransactions') \/ InSomeBlock(tx, chain')
       /\ \A s, t \in Slots(chain') :
             s # t => chain'[s[1]].transactions[s[2]].hash
                         # chain'[t[1]].transactions[t[2]].hash]_vars

\* C7: a submission whose hash is in the replay set is rejected with
\* Replay, and chain, pending pool and store are left as they were.
C7_ReplayRejected ==
    [][(AddBodyStep /\ SubmittedTx.hash \in processedTransactions)
          => /\ result'.error = "Replay"
             /\ Len(chain') = Len(chain)
             /\ pendingTransactions' = pendingTransactions
             /\ dbBlocks' = dbBlocks]_vars

\* C8: across the blocks of the chain, transaction hashes are pairwise
\* distinct and transaction nonces are pairwise distinct.
C8_HashesAndNoncesDistinct ==
    \A s, t \in Slots(chain) :
        s # t => LET a == chain[s[1]].transactions[s[2]]
                     b == chain[t[1]].transactions[t[2]]
                 IN  a.hash # b.hash /\ a.nonce # b.nonce

\* C9: within a rate window, a valid new submission of a user is refused as
\* RateLimited exactly when rateLimitMax submissions of that user were
\* admitted before it; a submission leaves the other users' counters
\* alone; with the counters cleared the next valid new submission is
\* admitted.
C9_FirstRateMaxAdmitted ==
    [][(AddBodyStep /\ Transaction_isValid(SubmittedTx)
                    /\ SubmittedTx.hash \notin processedTransactions)
          => LET u == SubmittedTx.actorUserId
             IN  /\ (result'.error = "RateLimited")
                       <=> admittedInWindow[u] >= rateLimitMax
                 /\ \A v \in DOMAIN rateLimitMap \ {u} :
                       /\ v \in DOMAIN rateLimitMap'
                       /\ rateLimitMap'[v] = rateLimitMap[v]
                 /\ rateLimitMap = <<>> => Admitted]_vars

\* C10: the gates apply in the order validity, replay, rate limit: a
\* rejection as InvalidTransaction or Replay leaves the rate counters as
\* they were, and an invalid or replayed submission is never answered with
\* RateLimited.
C10_ValidityAndReplayBeforeRateLimit ==
    [][AddBodyStep
          => /\ result'.error \in {"InvalidTransaction", "Replay"}
                   => rateLimitMap' = rateLimitMap
             /\ (\/ ~Transaction_isValid(SubmittedTx)
                 \/ SubmittedTx.hash \in processedTransactions)
                   => result'.error # "RateLimited"]_vars

Defective(tx) ==
    \/ tx.batchNo = "" \/ tx.actorUserId = 0
    \/ tx.timestamp > now + futureTolerance
    \/ tx.hash # Transaction_calculateHash(tx.actorUserId, tx.batchNo,
                                           tx.timestamp, tx.nonce)
    \/ ~tx.sigOk

\* C12: a submission with a missing field, a timestamp beyond the
\* tolerance, a hash that is not the recomputed hash, or a bad signature is
\* rejected as InvalidTransaction with pending pool and replay set
\* untouched; a new transaction over a day old and otherwise sound is
\* admitted when the limiter lets it pass.
C12_DefectiveRejected ==
    [][AddBodyStep
          => /\ Defective(SubmittedTx)
                   => /\ result'.error = "InvalidTransaction"
                      /\ pendingTransactions' = pendingTransactions
                      /\ processedTransactions' = processedTransactions
             /\ (/\ ~Defective(SubmittedTx)
                 /\ now - SubmittedTx.timestamp > oneDay
                 /\ SubmittedTx.hash \notin processedTransactions
                 /\ result'.error # "RateLimited")
                   => Admitted]_vars

\* C13: in every state the block at position i of the chain (counted from
\* 0) carries block number i, and every block after the first carries the
\* hash of the block before it as previousHash.
C13_NumberingAndLinkage ==
    /\ \A i \in DOMAIN chain : chain[i].blockNumber = i - 1
    /\ \A i \in DOMAIN chain :
          i > 1 => chain[i].previousHash = chain[i-1].hash

\* what C14 says of a valid chain
C14_WellFormed(ch) ==
    /\ Len(ch) > 0
    /\ ch[1].previousHash = ZeroHash
    /\ ch[1].blockNumber = 0
    /\ \A i \in 2..Len(ch) :
          /\ ch[i].hash = HashOf(ch[i])
          /\ ch[i].merkleRoot = Block_calculateMerkleRoot(ch[i].transactions)
          /\ MeetsDifficulty(ch[i].hash, ch[i].difficulty)
          /\ ch[i].validatorSignature # NoSignature
                => ch[i].validatorSignature
                      = SignBlockData(ch[i].validatorPublicKey, ch[i])
          /\ ch[i].previousHash = ch[i-1].hash
          /\ ch[i].blockNumber = ch[i-1].blockNumber + 1

\* C14: validateChain() answers true exactly when the first block of the
\* chain has previousHash '0' and blockNumber 0 and every later block has
\* its recomputed hash, its recomputed Merkle root, a hash meeting its
\* difficulty, a verifying validator signature if it has a signature, the
\* hash of its predecessor as previousHash and its predecessor's number
\* plus one.
C14_ValidateChainIff ==
    result.api = "validateChain"
       => (result.success <=> C14_WellFormed(chain))

\* the step in which the client's addTransaction() seals a block
SealStep == AddBodyStep /\ Len(chain') = Len(chain) + 1

SealedBlock == chain'[Len(chain')]

\* C15: when block number n is sealed, the engine's difficulty changes only
\* if n is a multiple of difficultyAdjustmentInterval; if it is, and the
\* chain holds the blocks n - interval and n - 1 that bound the previous
\* window, the difficulty goes up by exactly 1 when the span between their
\* timestamps is below half of targetBlockTime * interval, down by 1 but
\* not below 1 when the span is above twice that value, and stays
\* otherwise; the sealed block carries the resulting difficulty.
C15_DifficultyAdjustment ==
    [][SealStep =>
          LET n == SealedBlock.blockNumber
              expected == targetBlockTime * difficultyAdjustmentInterval
          IN  /\ SealedBlock.difficulty = difficulty'
              /\ difficulty' # difficulty
                    => n % difficultyAdjustmentInterval = 0
              /\ n % difficultyAdjustmentInterval = 0
                    => \A first, last \in Range(chain) :
                          (/\ first.blockNumber = n - difficultyAdjustmentInterval
                           /\ last.blockNumber = n - 1)
                             => LET span == last.timestamp - first.timestamp
                                IN  difficulty' =
                                       IF 2 * span < expected
                                       THEN difficulty + 1
                                       ELSE IF span > 2 * expected
                                       THEN (IF difficulty > 1
                                             THEN difficulty - 1 ELSE 1)
                                       ELSE difficulty]_vars

\* C16: with the engine at its initial difficulty and the in-memory chain
\* numbered 0, 1, 2, ..., when block number difficultyAdjustmentInterval is
\* sealed and the blocks 1 .. difficultyAdjustmentInterval were all sealed
\* within less than half of targetBlockTime * interval, that block carries
\* difficulty initialDifficulty + 1 and the engine is left at that
\* difficulty for the blocks that follow, however old block 0 is.
C16_FastBlocksRaiseDifficulty ==
    [][(/\ SealStep
        /\ difficulty = initialDifficulty
        /\ SealedBlock.blockNumber = difficultyAdjustmentInterval
        /\ \A i \in DOMAIN chain' : chain'[i].blockNumber = i - 1
        /\ 2 * (SealedBlock.timestamp - chain'[2].timestamp)
              < targetBlockTime * difficultyAdjustmentInterval)
          => /\ SealedBlock.difficulty = initialDifficulty + 1
             /\ difficulty' = initialDifficulty + 1]_vars

\* the client's initialize() gets its genesis row inserted
GenesisInsertStep ==
    pc[Client] = "genesis_insert" /\ pc'[Client] = "load_validators"

\* the client's initialize() completes
InitializeDoneStep == pc[Client] = "load_validators" /\ initialized'

\* C17: an initialize() that completes leaves a store with blocks: it found
\* blocks there or it persisted a genesis block.  The genesis block is
\* inserted only in a store without blocks; it is then the only stored
\* block and the only block in memory, with blockNumber 0, previousHash
\* '0', difficulty 0, no transactions and the Merkle root of no
\* transactions, and the chain validates.
C17_GenesisBootstrap ==
    [][/\ InitializeDoneStep => dbBlocks # <<>>
       /\ GenesisInsertStep
             => /\ dbBlocks = <<>>
                /\ Len(dbBlocks') = 1
                /\ chain' = dbBlocks'
                /\ dbBlocks'[1].blockNumber = 0
                /\ dbBlocks'[1].previousHash = ZeroHash
                /\ dbBlocks'[1].difficulty = 0
                /\ dbBlocks'[1].transactions = <<>>
                /\ dbBlocks'[1].merkleRoot = Block_calculateMerkleRoot(<<>>)
                /\ isChainValid(chain')]_vars

\* memory holds what the store holds: the stored blocks in block_number
\* order with their stored transactions, no pending transaction, and the
\* hashes of the stored transactions as replay set
MirrorsStore(ch, pending, processed) ==
    LET rows == OrderByBlockNumber(Range(dbBlocks))
    IN  /\ Len(ch) = Len(rows)
        /\ \A i \in DOMAIN rows :
              /\ ch[i].blockNumber = rows[i].blockNumber
              /\ ch[i].hash = rows[i].hash
              /\ ch[i].transactions = rows[i].transactions
        /\ pending = <<>>
        /\ processed =
              UNION {Range(TxHashes(rows[i].transactions)) : i \in DOMAIN rows}

\* reloadChain() returns to the client
ReloadChainDoneStep == result'.api = "reloadChain"

\* the reload started by the integrity check has ended
RecoveryReloadDoneStep ==
    /\ pc[HealthTask] \in {"load_blocks", "load_txs"}
    /\ pc'[HealthTask] = "check_select"

\* C18: when a reload has read the store (initialize() is done with its
\* load and its genesis block, reloadChain() returns, or the reload of the
\* integrity check ends), the in-memory chain is the stored blocks in
\* block_number order, each with its stored transactions, the pending pool
\* is empty and the replay set is the set of hashes of the stored
\* transactions.
C18_ReloadMirrorsStore ==
    [][/\ pc[Client] = "load_validators"
             => MirrorsStore(chain, pendingTransactions, processedTransactions)
       /\ (ReloadChainDoneStep \/ RecoveryReloadDoneStep)
             => MirrorsStore(chain', pendingTransactions',
                             processedTransactions')]_vars

\* the client calls reloadChain()
ReloadChainCallStep ==
    /\ pc[Client] = "idle"
    /\ pc'[Client] = "load_blocks"
    /\ ctx'[Client].api = "reloadChain"

\* C19: after reset, sealing and reloadChain(), every block of the reloaded
\* chain equals the pre-reload block on every stored field (blockNumber,
\* previousHash, merkleRoot, timestamp, nonce, difficulty, hash, validator
\* fields, transactions).  The rows of the store carry these fields as
\* they were written and do not change during the reload: the chain is
\* compared with them when reloadChain() is called and when it returns.
C19_ReloadKeepsEveryField ==
    [][/\ ReloadChainCallStep => chain = dbBlocks
       /\ ReloadChainDoneStep => chain' = dbBlocks]_vars

\* performIntegrityCheck() gets the answer of its select
IntegrityCheckStep ==
    pc[HealthTask] = "check_select" /\ pc'[HealthTask] # "check_select"

\* C20: whatever memory and store hold, a first integrity check that finds
\* an issue (the chain did not validate, the store has another number of
\* blocks than the chain, or the tip's hash is not that of the last stored
\* block) empties chain, pending pool and replay set and goes into the
\* reload; the check after the reload reports its own outcome and starts
\* no further reload; a first check without issue reports success, starts
\* no reload and leaves chain, pending pool and replay set as they are.
C20_IssueTriggersOneReload ==
    [][IntegrityCheckStep =>
          LET found ==
                 \/ ~ctx[HealthTask].chainValid
                 \/ Len(dbBlocks) # Len(chain)
                 \/ /\ Len(chain) > 0
                    /\ Len(dbBlocks) > 0
                    /\ getLatestBlock(chain).hash # dbBlocks[Len(dbBlocks)].hash
          IN  IF ctx[HealthTask].recheck
              THEN /\ result'.api = "health"
                   /\ result'.success = ~found
                   /\ UNCHANGED memory
              ELSE IF found
              THEN /\ pc'[HealthTask] = "load_blocks"
                   /\ chain' = <<>>
                   /\ pendingTransactions' = <<>>
                   /\ processedTransactions' = {}
              ELSE /\ result'.api = "health"
                   /\ result'.success
                   /\ UNCHANGED memory]_vars

\* a stored block other than the last one carries an overwritten block_hash
NonTipTampered ==
    \E r \in Range(dbBlocks) :
       /\ r.hash = ForgedHash
       /\ \E q \in Range(dbBlocks) : q.blockNumber > r.blockNumber

\* C21: once the stored block_hash of a block other than the tip has been
\* overwritten, the next integrity check goes into the reload; the reload
\* leaves in memory the blocks as the store holds them, overwritten hash
\* included; and validateChain() on that chain answers false.
C21_TamperDetectedAndReloaded ==
    [][/\ (IntegrityCheckStep /\ NonTipTampered /\ ~ctx[HealthTask].recheck)
             => pc'[HealthTask] = "load_blocks"
       /\ (RecoveryReloadDoneStep /\ NonTipTampered)
             => MirrorsStore(chain', pendingTransactions',
                             processedTransactions')
       /\ (/\ result'.api = "validateChain"
           /\ NonTipTampered
           /\ MirrorsStore(chain, pendingTransactions, processedTransactions))
             => ~result'.success]_vars

\* a step of loadFromDatabase() in call p whose select was rejected: the
\* select of the rows of a store with blocks hands no rows to the loop, or
\* the loop ends without the block it was at
LoadFailedStep(p) ==
    \/ /\ pc[p] = "load_blocks"
       /\ pc'[p] \notin {"load_blocks", "load_txs"}
       /\ dbBlocks # <<>>
    \/ /\ pc[p] = "load_txs"
       /\ pc'[p] # "load_txs"
       /\ chain' = chain

\* C22: when a read of the store fails during a reload, reloadChain()
\* returns a failure to its caller, and the auto-recovery that started the
\* reload reports a failed check instead of going on to the check that
\* follows a successful reload.
C22_FailedReloadSurfaced ==
    [][/\ (LoadFailedStep(Client) /\ ctx[Client].api = "reloadChain")
             => /\ result'.api = "reloadChain"
                /\ ~result'.success
       /\ LoadFailedStep(HealthTask)
             => /\ result'.api = "health"
                /\ ~result'.success]_vars

\* resetBlockchain() returns success to the client
ResetDoneStep == result'.api = "reset" /\ result'.success

\* C23: when resetBlockchain() returns success, the store holds no
\* batch_blockchain_refs row, no transaction row and exactly one block row,
\* a block 0 without transactions; the chain in memory is that block; the
\* pending pool and the replay set are empty (so that a transaction sealed
\* before the reset is not refused as a replay).
C23_ResetLeavesOnlyGenesis ==
    [][ResetDoneStep
          => /\ dbBatchRefs' = {}
             /\ Len(dbBlocks') = 1
             /\ dbBlocks'[1].blockNumber = 0
             /\ dbBlocks'[1].transactions = <<>>
             /\ chain' = dbBlocks'
             /\ pendingTransactions' = <<>>
             /\ processedTransactions' = {}]_vars

\* resetBlockchain() returns a failure of one of its deletes to the client
ResetFailedStep ==
    /\ pc[Client] \in {"reset_refs", "reset_txs", "reset_blocks"}
    /\ result'.api = "reset"
    /\ ~result'.success

\* every stored block has as many transaction rows as its
\* transaction_count says
CountsMatch(rows, counts) ==
    \A i \in DOMAIN rows :
       /\ rows[i].blockNumber \in DOMAIN counts
       /\ Len(rows[i].transactions) = counts[rows[i].blockNumber]

\* every stored block has the transaction rows it was written with and
\* every stored transaction has its batch_blockchain_refs row
StoreWhole(rows, counts, refs) ==
    /\ CountsMatch(rows, counts)
    /\ refs = RefsOf(rows)

\* the chain in memory has the stored blocks, hash by hash
SameBlocks(ch, rows) ==
    /\ Len(ch) = Len(rows)
    /\ \A i \in DOMAIN ch : ch[i].hash = rows[i].hash

\* C24: when a delete of resetBlockchain() fails, nothing has been deleted:
\* the store holds its blocks with all their transactions and their
\* batch_blockchain_refs rows, and a chain in memory that has the stored
\* blocks also has, block by block, the stored transactions.
C24_FailedResetDeletesNothing ==
    [][ResetFailedStep
          => /\ StoreWhole(dbBlocks', dbTransactionCount', dbBatchRefs')
             /\ SameBlocks(chain', dbBlocks')
                   => \A i \in DOMAIN chain' :
                         chain'[i].transactions = dbBlocks'[i].transactions]_vars

\* persistBlock() fails in the client's addTransaction()
PersistFailedStep ==
    pc[Client] = "persist" /\ result'.error = "PersistenceFailed"

\* C25: in every state of the store each stored block has as many
\* transaction rows as its transaction_count says; a persistBlock() that
\* fails leaves blocks, transactions and batch_blockchain_refs as they
\* were, with no row of its block.
C25_SealingIsAllOrNothing ==
    [][/\ CountsMatch(dbBlocks', dbTransactionCount')
       /\ PersistFailedStep
             => /\ UNCHANGED store
                /\ \A i \in DOMAIN dbBlocks' :
                      dbBlocks'[i].hash = ctx[Client].block.hash
                         => dbBlocks'[i] \in Range(dbBlocks)]_vars

(***************************************************************************)
(* The key store                                                           *)
(***************************************************************************)
\* a step in which generateKeysForUser() returns its keys to the client
GenerateDoneStep ==
    /\ pc[Client] = "keys_write"
    /\ pc'[Client] = "idle"
    /\ result'.api = "generateKeys"
    /\ result'.success

\* C26: after generate(user_id) succeeds, whatever the user's record was
\* before (absent, active or deactivated), the user has an active record,
\* get_private(user_id) returns the private key generate just returned, and
\* key_version is 1 for a new record and the previous version plus 1 for a
\* rotation.
C26_GenerateLeavesUsableKey ==
    [][GenerateDoneStep =>
         LET userId == result'.userId
             before == KeysOf(userKeys, userId)
             after == KeysOf(userKeys', userId)
         IN  /\ Len(after) = 1
             /\ after[1].isActive
             /\ getPrivateKey(after[1], userId) =
                   [error |-> "none", privateKey |-> result'.privateKey]
             /\ after[1].keyVersion = result'.keyVersion
             /\ result'.keyVersion =
                   IF Len(before) = 0 THEN 1 ELSE before[1].keyVersion + 1]_vars

\* the active rows user_keys holds for a user
ActiveKeys(userId) ==
    {i \in DOMAIN userKeys : userKeys[i].userId = userId /\ userKeys[i].isActive}

\* C27: after any interleaving of generate, deactivate and reactivate calls,
\* two generate calls for the same new user that overlap between the select
\* and the insert included, user_keys holds at most one active row per user.
C27_AtMostOneActiveKey ==
    \A u \in Users : Cardinality(ActiveKeys(u)) <= 1

\* of two overlapping generate calls for a new user the second insert was
\* rejected, the first one's row being active
C27_Witness ==
    /\ result.api = "generateKeys"
    /\ ~result.success
    /\ Cardinality(ActiveKeys(result.userId)) = 1
    /\ Len(userKeys) = 1

\* a step in which the named call of the KeyManager returns to the client
KeyCallStep(api) ==
    /\ pc[Client] = "idle"
    /\ pc'[Client] = "idle"
    /\ result'.api = api

\* a row of user_keys apart from is_active
KeyMaterial(row) ==
    <<row.userId, row.publicKey, row.encryptedPrivateKey, row.keyVersion>>

\* C28: get_private(user_id) fails with KeyMissing exactly when the user has
\* no record and with KeyInactive exactly when the record is deactivated,
\* and otherwise returns the key; deactivate and reactivate change is_active
\* and nothing else of the record, so that reactivate restores access to the
\* same private key with the same public key and key_version; get_public
\* answers the public key whether the record is active or not.
C28_KeyAccessFollowsActivation ==
    [][LET userId == result'.userId
           found == KeysOf(userKeys, userId)
           after == KeysOf(userKeys', userId)
       IN  /\ KeyCallStep("getPrivateKey") =>
                /\ (result'.error = "KeyMissing") <=> (Len(found) = 0)
                /\ (result'.error = "KeyInactive") <=>
                      (Len(found) > 0 /\ ~found[1].isActive)
                /\ (Len(found) > 0 /\ found[1].isActive) =>
                      /\ result'.success
                      /\ result'.privateKey = found[1].encryptedPrivateKey[2]
                /\ userKeys' = userKeys
           /\ KeyCallStep("getPublicKey") =>
                /\ result'.publicKey =
                      IF Len(found) = 0 THEN NoKey ELSE found[1].publicKey
                /\ userKeys' = userKeys
           /\ (KeyCallStep("deactivateKeys") /\ result'.success) =>
                /\ Len(after) = Len(found)
                /\ \A k \in DOMAIN found :
                      /\ ~after[k].isActive
                      /\ KeyMaterial(after[k]) = KeyMaterial(found[k])
           /\ (KeyCallStep("reactivateKeys") /\ result'.success) =>
                /\ Len(after) = Len(found)
                /\ \A k \in DOMAIN found :
                      /\ after[k].isActive
                      /\ KeyMaterial(after[k]) = KeyMaterial(found[k])
                      /\ getPrivateKey(after[k], userId) =
                            [error |-> "none",
                             privateKey |-> found[k].encryptedPrivateKey[2]]]_vars

\* get_private was refused for a rotated record that is deactivated
C28_Witness ==
    /\ result.api = "getPrivateKey"
    /\ result.error = "KeyInactive"
    /\ \E i \in DOMAIN userKeys :
          /\ userKeys[i].userId = result.userId
          /\ userKeys[i].keyVersion = 2
          /\ ~userKeys[i].isActive

(***************************************************************************)
(* Validators                                                              *)
(***************************************************************************)
\* a step in which addTransaction() has a block created
SealingStep ==
    /\ pc[Client] \in {"idle", "validator_private", "validator_public"}
    /\ pc'[Client] = "persist"

\* C29: only authorized validators produce and sign blocks: every sealed
\* block that carries a validator_user_id or a validator_signature was
\* sealed with a validator id that was in the validator set at sealing time.
C29_OnlyValidatorsSeal ==
    [][SealingStep =>
         LET block == ctx'[Client].block
         IN  (\/ block.validatorUserId # NoValidator
              \/ block.validatorSignature # NoSignature)
                => block.validatorUserId \in validators]_vars

(***************************************************************************)
(* Serialization                                                           *)
(***************************************************************************)
\* the fields of a block that are not computed from the others
NonDerived(b) ==
    <<b.blockNumber, b.previousHash, b.transactions, b.timestamp, b.nonce,
      b.difficulty, b.validatorUserId, b.validatorPublicKey,
      b.validatorSignature>>

\* C30: fromJSON(toJSON(tx)) equals tx for every transaction, and
\* fromJSON(toJSON(block)) equals block on all non-derived fields for every
\* block, the genesis block (difficulty 0, nonce 0) and blocks that carry
\* transactions included.
C30_RoundTrip ==
    /\ pc[Client] = "block_done" =>
          NonDerived(ctx[Client].block) = NonDerived(chain[1])
    /\ pc[Converter] = "tx_done" =>
          ctx[Converter].tx = pendingTransactions[1]

(***************************************************************************)
(* The Merkle root                                                         *)
(***************************************************************************)
\* the fold of a list of hashes layer by layer: hash k of the next layer is
\* the hash of hashes 2k-1 and 2k, and of hash 2k-1 with itself where there
\* is no hash 2k
RECURSIVE MerkleFold(_)
MerkleFold(H) ==
    IF Len(H) = 0 THEN Sha256Empty
    ELSE IF Len(H) = 1 THEN H[1]
    ELSE MerkleFold([k \in 1..((Len(H) + 1) \div 2) |->
                       Sha256Concat(H[2 * k - 1],
                                    H[IF 2 * k <= Len(H) THEN 2 * k
                                      ELSE 2 * k - 1])])

\* C31: the Merkle root of a block is the fold of its ordered transaction
\* hashes: the hash of the empty input for no transactions, else repeated
\* pairwise hashing of adjacent hashes, the last hash of an odd layer paired
\* with itself, until one hash remains (the root of a single transaction is
\* its own hash).
C31_MerkleRootIsFold ==
    pc[Client] = "block_built" =>
       /\ ctx[Client].block.transactions = pendingTransactions
       /\ ctx[Client].block.merkleRoot =
             MerkleFold(TxHashes(pendingTransactions))
       /\ Len(pendingTransactions) = 0 =>
             ctx[Client].block.merkleRoot = Sha256Empty
       /\ Len(pendingTransactions) = 1 =>
             ctx[Client].block.merkleRoot = pendingTransactions[1].hash

\* a block of five transactions: the first layer and the second are odd
C31_Witness ==
    /\ pc[Client] = "block_built"
    /\ Len(ctx[Client].block.transactions) = 5
    /\ ctx[Client].block.merkleRoot # Sha256Empty

(***************************************************************************)
(* The batch index                                                         *)
(***************************************************************************)
\* the rows of batch_blockchain_refs for a persisted transaction
RefsFor(rows, ij) ==
    {r \in dbBatchRefs :
        r.transactionHash = rows[ij[1]].transactions[ij[2]].hash}

\* C32: every persisted transaction has exactly one batch_refs row, whose
\* batch_no, transaction hash and block are the transaction's and whose stage
\* is the stage of its transaction type; get_batch_history(batch_no) returns
\* exactly the persisted transactions of that batch in ascending timestamp
\* order.
C32_BatchIndexAndHistory ==
    /\ \A ij \in JoinedRows(dbBlocks) :
          /\ Cardinality(RefsFor(dbBlocks, ij)) = 1
          /\ \A r \in RefsFor(dbBlocks, ij) :
                /\ r.batchNo = dbBlocks[ij[1]].transactions[ij[2]].batchNo
                /\ r.blockNumber = dbBlocks[ij[1]].blockNumber
                /\ r.stage # NoStage
                /\ r.stage = getStageFromTransactionType(
                                dbBlocks[ij[1]].transactions[ij[2]].transactionType)
    /\ (result.api = "getBatchHistory" /\ result.success) =>
          /\ {result.history[k].transactionHash : k \in DOMAIN result.history}
                = {dbBlocks[ij[1]].transactions[ij[2]].hash :
                     ij \in {x \in JoinedRows(dbBlocks) :
                               dbBlocks[x[1]].transactions[x[2]].batchNo
                                  = result.batchNo}}
          /\ \A a, b \in DOMAIN result.history :
                a < b => result.history[a].timestamp <= result.history[b].timestamp

(***************************************************************************)
(* Order of sealing                                                        *)
(***************************************************************************)
\* a step in which loadFromDatabase() puts the block of a row on the chain
LoadBlockStep(p) ==
    /\ pc[p] = "load_txs"
    /\ pc'[p] # "load_txs" \/ ctx'[p].idx # ctx[p].idx
    /\ Len(chain') = Len(chain) + 1

\* C33: sealing takes pending transactions in FIFO order: the transactions
\* of a sealed block are the first min(|pending|, blockSize) pending
\* transactions in the order of their admission, the rest stay pending in
\* order, and the order is the same in the store and after reload.
C33_SealingIsFifo ==
    [][/\ SealStep =>
            LET all == IF Admitted
                       THEN Append(pendingTransactions, SubmittedTx)
                       ELSE pendingTransactions
                n == IF Len(all) < blockSize THEN Len(all) ELSE blockSize
            IN  /\ SealedBlock.transactions = SubSeq(all, 1, n)
                /\ pendingTransactions' = SubSeq(all, n + 1, Len(all))
       /\ (pc[Client] = "persist" /\ pc'[Client] = "idle" /\ result'.success) =>
            /\ Len(dbBlocks') = Len(dbBlocks) + 1
            /\ dbBlocks'[Len(dbBlocks')].transactions
                  = ctx[Client].block.transactions
       /\ \A p \in Tasks :
            LoadBlockStep(p) =>
               chain'[Len(chain')].transactions
                  = ctx[p].rows[ctx[p].idx].transactions]_vars

\* the stored block of two transactions is on the chain after the load, and
\* after it a block of two transactions sealed from a pool that held the
\* first when the second was admitted
C33_Witness ==
    /\ Len(chain) = 3
    /\ dbBlocks = FifoStore
    /\ chain[2].transactions = <<Tx4, Tx7>>
    /\ chain[3].transactions = <<Tx1, Tx2>>

(***************************************************************************)
(* Block life cycle                                                        *)
(***************************************************************************)
\* a step of the client's addTransaction() that appends a block it created
AppendStep ==
    /\ SealStep \/ SealingStep
    /\ Len(chain') = Len(chain) + 1

\* the block as constructed, before mineBlock() and signBlock()
DraftOf(b) ==
    With([b EXCEPT !.nonce = 0, !.validatorSignature = NoSignature],
         LAMBDA fields : [fields EXCEPT !.hash = HashOf(fields)])

\* C34: every block appended by sealing was built, mined, optionally signed
\* and then appended: at the append its hash is the hash of its fields and
\* meets its difficulty, which is the engine's difficulty, and apart from the
\* signature it is the block that mining its draft gives, so that signing
\* changed neither hash nor nonce; only the genesis block is left unmined.
C34_SealedBlocksAreMined ==
    [][AppendStep =>
         /\ SealedBlock.hash = HashOf(SealedBlock)
         /\ SealedBlock.difficulty = difficulty'
         /\ MeetsDifficulty(SealedBlock.hash, SealedBlock.difficulty)
         /\ [SealedBlock EXCEPT !.validatorSignature = NoSignature]
               = mineBlock(DraftOf(SealedBlock), SealedBlock.difficulty)
         /\ SealedBlock.validatorSignature # NoSignature
               => verifyBlockSignature(SealedBlock)]_vars

\* the same for the blocks sealed on a chain that is not empty
C34_OnNonEmptyChain ==
    [][(AppendStep /\ Len(chain) > 0) =>
         /\ SealedBlock.hash = HashOf(SealedBlock)
         /\ SealedBlock.difficulty = difficulty'
         /\ MeetsDifficulty(SealedBlock.hash, SealedBlock.difficulty)
         /\ [SealedBlock EXCEPT !.validatorSignature = NoSignature]
               = mineBlock(DraftOf(SealedBlock), SealedBlock.difficulty)
         /\ SealedBlock.validatorSignature # NoSignature
               => verifyBlockSignature(SealedBlock)]_vars

(***************************************************************************)
(* SpecSeal: forced sealing on an empty pool.  An initialized service      *)
(* whose chain was sealed at drawn times and whose pool holds nothing or   *)
(* one admitted transaction; every call asks for a block, so that a call   *)
(* that fills the pool has the engine seal it and forceCreateBlock() then  *)
(* finds the pool empty.                                                   *)
(***************************************************************************)
InitSeal ==
    /\ clientTxs = PoolDifficulty
    /\ admittedInWindow = [u \in Users |-> 0]
    /\ initialized = TRUE
    /\ healthCheckInterval = TRUE
    /\ \E st \in StampSeqs :
          /\ chain = ChainAt(st)
          /\ now = st[Len(st)]
    /\ dbBlocks = chain
    /\ dbTransactionCount = CountsOf(dbBlocks)
    /\ dbBatchRefs = RefsOf(dbBlocks)
    /\ validators = {1}
    /\ dbValidators = <<{1}>>
    /\ userKeys = <<>>
    /\ pendingTransactions \in {<<>>, <<Tx3>>}
    /\ processedTransactions =
          UNION {Range(TxHashes(chain[i].transactions)) : i \in DOMAIN chain}
             \cup Range(TxHashes(pendingTransactions))
    /\ difficulty \in 1..MaxDifficulty
    /\ rateLimitMap = <<>>
    /\ pc = [p \in Tasks |-> "idle"]
    /\ ctx = [p \in Tasks |-> CtxIdle]
    /\ result = NoResult

NextSeal ==
    \/ \E tx \in PoolDifficulty : addTransactionCall(Client, tx, TRUE)
    \/ persistBlock(Client, TRUE)

SpecSeal == InitSeal /\ [][NextSeal]_vars

\* what the engine's addTransaction() leaves for the forceCreateBlock() of
\* the step that is being taken
EngineAdd ==
    Blockchain_addTransaction(chain, pendingTransactions,
                              processedTransactions, difficulty,
                              SubmittedTx, now)

\* C35: forceCreateBlock() on an empty pool returns no block and changes
\* nothing: after a call whose admission had the engine seal the whole pool,
\* chain, difficulty and replay set are as the engine left them, also when
\* the next block number is a multiple of the adjustment interval, no block
\* is returned, nothing is awaited and the store is unchanged.
C35_SealOnEmptyPoolIsNoOp ==
    [][(Admitted /\ EngineAdd.pending = <<>>) =>
         /\ chain' = EngineAdd.chain
         /\ difficulty' = EngineAdd.difficulty
         /\ processedTransactions' = EngineAdd.processed
         /\ pendingTransactions' = <<>>
         /\ pc'[Client] = "idle"
         /\ result'.success /\ result'.blockNumber = -1 /\ result'.pending
         /\ UNCHANGED store]_vars

\* a call has just returned without a block after the engine sealed the pool
\* into a block whose successor's number is a multiple of the interval, at
\* a time at which adjustDifficulty() would raise the difficulty
C35_Witness ==
    /\ result.api = "addTransaction" /\ result.success /\ result.pending
    /\ pendingTransactions = <<>>
    /\ Len(chain) = Len(dbBlocks) + 1
    /\ Len(chain[Len(chain)].transactions) = blockSize
    /\ Len(chain) % difficultyAdjustmentInterval = 0
    /\ adjustDifficulty(chain, difficulty) # difficulty

(***************************************************************************)
(* Integrity check beside a call                                           *)
(***************************************************************************)
\* the select of performIntegrityCheck() returns while the client's
\* addTransaction() is parked at persistBlock(): its block is on the chain
\* and not in the store, and but for that block the valid chain and the
\* store agree
CheckDuringPersist ==
    /\ pc[HealthTask] = "check_select"
    /\ pc'[HealthTask] # "check_select"
    /\ pc[Client] = "persist"
    /\ ctx[HealthTask].chainValid
    /\ ~ctx[HealthTask].recheck
    /\ Len(dbBlocks) > 0
    /\ chain = Append(dbBlocks, ctx[Client].block)

\* C36: an integrity check that runs while the block of an addTransaction()
\* is appended in memory and not yet committed reports no issue and starts
\* no reload: chain, pending pool and replay set stay as they are.
C36_CheckToleratesInFlightBlock ==
    [][CheckDuringPersist =>
         /\ pc'[HealthTask] = "idle"
         /\ result'.api = "health" /\ result'.success
         /\ UNCHANGED memory]_vars

(***************************************************************************)
(* Genesis                                                                 *)
(***************************************************************************)
\* the store holds a block 0 and the chain starts with it
StoredGenesisHeadsChain ==
    /\ Len(chain) > 0
    /\ chain[1].blockNumber = 0
    /\ \E i \in DOMAIN dbBlocks :
          /\ dbBlocks[i].blockNumber = 0
          /\ dbBlocks[i].hash = chain[1].hash

\* C37: an initialize() whose genesis insert failed leaves no genesis block
\* in memory, and whenever the service is initialized and no call or check
\* is under way the store holds block 0 and the chain starts with it.
C37_InitializedHasStoredGenesis ==
    /\ result.error = "InitializationFailed" => chain = <<>>
    /\ (initialized /\ \A p \in Tasks : pc[p] = "idle")
          => StoredGenesisHeadsChain

\* the second half on its own
C37_InitializedImpliesGenesis ==
    (initialized /\ \A p \in Tasks : pc[p] = "idle") => StoredGenesisHeadsChain

(***************************************************************************)
(* SpecRestart: one client sealing over a store that does not fail, with   *)
(* restarts of the process between and during its calls.                   *)
(***************************************************************************)
NextRestart ==
    \/ \E tx \in TxPool : addTransactionCall(Client, tx, TRUE)
    \/ persistBlock(Client, TRUE)
    \/ \E p \in {Client, HealthTask} : loadFromDatabase(p, TRUE)
    \/ \E p \in {Client, HealthTask} : loadBlock(p, TRUE)
    \/ createGenesisBlock(Client, TRUE)
    \/ initialize(Client)
    \/ performIntegrityCheck(TRUE)
    \/ restart

SpecRestart == InitOneUser /\ [][NextRestart]_vars

\* the difficulty an engine that starts at initialDifficulty has after it
\* sealed the blocks of ch one by one: adjustDifficulty() ran before each
\* block was built, on the chain as it was then
RECURSIVE DifficultyAfterSealing(_)
DifficultyAfterSealing(ch) ==
    IF Len(ch) <= 1 THEN initialDifficulty
    ELSE With(SubSeq(ch, 1, Len(ch) - 1), LAMBDA before :
           adjustDifficulty(before, DifficultyAfterSealing(before)))

\* initialize() completes
InitializeStep == ~initialized /\ initialized'

\* C38: the difficulty in force is determined by the chain: when
\* initialize() completes, after a restart on a stored chain as well, the
\* engine's difficulty is the one it has after sealing that chain without a
\* restart.
C38_DifficultySurvivesRestart ==
    [][InitializeStep => difficulty' = DifficultyAfterSealing(chain')]_vars

\* without a restart: whenever a sealing call returns its block, the engine's
\* difficulty is the one the chain determines
C38_DifficultyFollowsChain ==
    (result.api = "addTransaction" /\ result.blockNumber > 0)
        => difficulty = DifficultyAfterSealing(chain)

(***************************************************************************)
(* class BlockchainHelper.  Every record*() method has the body of         *)
(* recordCultivation(): it awaits the actor's private key, then the public *)
(* key, signs a transaction of its type and awaits                         *)
(* blockchainService.addTransaction(transaction, true); what it returns is *)
(* computed from the answer of that call, and an exception on the way is   *)
(* answered with {success: false, error}.                                  *)
(***************************************************************************)
RecordBatches == {"B1", "B2"}

\* the nonces the Transaction constructor may generate
RecordNonces == {"r1", "r2"}

\* recordCultivation(cultivationData, batchNo, farmerUserId, farmerId) up
\* to its first await, the select of KeyManager.getPrivateKey()
recordCultivation(p, batchNo, farmerUserId) ==
    /\ p \in Calls
    /\ pc[p] = "idle"
    /\ Len(chain) < MaxChain
    /\ Len(dbBlocks) < MaxChain
    /\ adjustDifficulty(chain, difficulty) <= MaxDifficulty
    /\ pc' = [pc EXCEPT ![p] = "record_private"]
    /\ ctx' = [ctx EXCEPT ![p] =
                 [CtxIdle EXCEPT !.api = "recordCultivation",
                                 !.userId = farmerUserId,
                                 !.tx = TransactionAt(farmerUserId, batchNo, "",
                                                      FALSE, 0, NoHash)]]
    /\ result' = NoResult
    /\ UNCHANGED <<ledger, userKeys>>

\* what the catch of recordCultivation() returns
RecordFailed(p, error) ==
    Return(pc, ctx, p, Result("recordCultivation", NoTx, FALSE, error, -1, FALSE))

\* await KeyManager.getPrivateKey(farmerUserId): what it throws goes to the
\* catch of recordCultivation()
recordPrivateKey(p) ==
    /\ pc[p] = "record_private"
    /\ LET found == KeysOf(userKeys, ctx[p].userId)
       IN  IF Len(found) = 0
           THEN RecordFailed(p, "KeyMissing")
           ELSE \E i \in DOMAIN found :
                   \E a \in {getPrivateKey(found[i], ctx[p].userId)} :
                      IF a.error # "none"
                      THEN RecordFailed(p, a.error)
                      ELSE /\ pc' = [pc EXCEPT ![p] = "record_public"]
                           /\ ctx' = [ctx EXCEPT ![p].privateKey = a.privateKey]
                           /\ result' = NoResult
    /\ UNCHANGED <<ledger, userKeys>>

\* await KeyManager.getPublicKey(farmerUserId) returns: the transaction is
\* signed with the private key at the current time, gets the public key and
\* a fresh nonce, and addTransaction(transaction, true) runs to its first
\* await.  The signature verifies if the two keys are a pair.
recordPublicKey(p, nonce) ==
    /\ pc[p] = "record_public"
    /\ \E publicKey \in {r.publicKey : r \in Range(KeysOf(userKeys, ctx[p].userId))}
                          \cup (IF KeysOf(userKeys, ctx[p].userId) = <<>>
                                THEN {NoKey} ELSE {}) :
          LET transaction ==
                 TransactionAt(ctx[p].userId, ctx[p].tx.batchNo, nonce,
                               publicKey = PublicKeyOf(ctx[p].privateKey),
                               now, NoHash)
          IN  IF ~initialized
              THEN /\ pc' = [pc EXCEPT ![p] = "load_blocks"]
                   /\ ctx' = [ctx EXCEPT ![p] =
                                [CtxIdle EXCEPT !.api = "addTransaction",
                                                !.inLoad = "initialize",
                                                !.tx = transaction,
                                                !.auto = TRUE]]
                   /\ UNCHANGED <<memory, difficulty, rateLimitMap,
                                  admittedInWindow>>
                   /\ result' = NoResult
              ELSE ApplyAddBody(pc, ctx, p, transaction, TRUE)
    /\ UNCHANGED <<initialized, healthCheckInterval, now, clientTxs, userKeys,
                   validators, store>>

(***************************************************************************)
(* SpecRecord: recording calls beside calls of the KeyManager that         *)
(* generate, deactivate and reactivate the actors' keys, on a store that   *)
(* does not fail; calls overlap.                                           *)
(***************************************************************************)
NextRecord ==
    \/ \E p \in Calls, b \in RecordBatches, u \in Users : recordCultivation(p, b, u)
    \/ \E p \in Calls : recordPrivateKey(p)
    \/ \E p \in Calls, n \in RecordNonces : recordPublicKey(p, n)
    \/ \E p \in Calls : persistBlock(p, TRUE)
    \/ \E p \in Calls : loadFromDatabase(p, TRUE)
    \/ \E p \in Calls : createGenesisBlock(p, TRUE)
    \/ \E p \in Calls : initialize(p)
    \/ \E u \in Users : generateKeysForUser(Client, u, "priv1")
    \/ generateSelect(Client, TRUE)
    \/ generateWrite(Client, TRUE)
    \/ \E p \in Calls, u \in Users : deactivateKeys(p, u, TRUE)
    \/ \E p \in Calls, u \in Users : reactivateKeys(p, u, TRUE)

SpecRecord == InitOneUser /\ [][NextRecord]_vars

\* the user has keys and all of them are inactive
Deactivated(userId) ==
    /\ KeysOf(userKeys, userId) # <<>>
    /\ \A r \in Range(KeysOf(userKeys, userId)) : ~r.isActive

\* C39: while an actor's keys are deactivated, a recording operation for
\* that actor that reads the key fails without admitting a transaction:
\* chain, pending pool, replay set, rate limit counters and store are
\* unchanged, and the call returns success = false.
C39_RecordFailsWhileDeactivated ==
    [][\A p \in Calls :
         (/\ pc[p] = "record_private"
          /\ pc'[p] # "record_private"
          /\ Deactivated(ctx[p].userId))
            => /\ pc'[p] = "idle"
               /\ result'.api = "recordCultivation"
               /\ ~result'.success
               /\ UNCHANGED <<memory, rateLimitMap, admittedInWindow, store>>]_vars

\* a recording call for user 1, who has recorded a block before and whose
\* keys are deactivated since, has just failed
C39_Witness ==
    /\ result.api = "recordCultivation"
    /\ ~result.success
    /\ result.error = "KeyInactive"
    /\ Deactivated(1)
    /\ \E i \in DOMAIN dbBlocks :
          \E j \in DOMAIN dbBlocks[i].transactions :
             dbBlocks[i].transactions[j].actorUserId = 1

====
